---- MODULE Spec2Model ----
(***************************************************************************)
(* CAD semantic extraction and BIM graph synthesis (Fitit_Traditional).    *)
(*                                                                         *)
(* Four state machines share the variables below:                          *)
(*   Spec        RobustProcessor driving one shared IFCGenerator           *)
(*               (backend/ifc_generator.py, backend/robust_processor.py)   *)
(*   SpecLayer   DXFParser._analyze_layer applied to layer names           *)
(*               (backend/dxf_parser.py)                                   *)
(*   SpecExtract DXFParser.parse_dxf followed by                           *)
(*               GeometryExtractor.extract_architectural_elements          *)
(*               (backend/dxf_parser.py, backend/geometry_extractor.py)    *)
(*   SpecOverlap two process_dxf_file calls that overlap on the parser and *)
(*               extractor of one RobustProcessor                          *)
(*               (backend/robust_processor.py)                             *)
(*                                                                         *)
(* Lengths and confidences are exact: confidences are integers in          *)
(* thousandths, lengths in the extractor are integers in drawing units     *)
(* with the unit scale kept as a fraction, and distances are kept as       *)
(* squared distances in fraction form <<numerator, denominator>>.          *)
(***************************************************************************)
EXTENDS Integers, Sequences, FiniteSets, TLC

VARIABLES
    pc,                 \* position of process_dxf_file / generate_ifc
    elements,           \* the `elements` argument of generate_ifc
    builds,             \* number of generate_ifc calls made on the generator
    _wall_solids,       \* IFCGenerator._wall_solids, in insertion order
    _openings_by_wall,  \* IFCGenerator._openings_by_wall, in insertion order
    model,              \* the graph built by the native tier of the current call
    stub,               \* text written by the degraded tier (relationships)
    attempts,           \* tiers attempted by the current generate_ifc call
    ifc_result,         \* value returned by generate_ifc
    proc_result,        \* value returned by process_dxf_file
    layer_name,         \* argument of the last _analyze_layer call
    layer_info,         \* value returned by the last _analyze_layer call
    probed,             \* results of earlier _analyze_layer calls on ProbeNames
    entity,             \* argument of the last _analyze_entity call
    element,            \* value returned by the last _analyze_entity call
    scale_to_m,         \* GeometryExtractor.scale_to_m
    extracted,          \* GeometryExtractor.elements
    analysed,           \* entities the extraction loop has gone through
    epc,                \* position of parse_dxf / extract_architectural_elements
    doc,                \* the drawing: header unit and modelspace entities
    parsed_dxf,         \* value returned by parse_dxf
    result,             \* value returned by extract_architectural_elements
    invocation,         \* locals of each of two overlapping process_dxf_file calls
    self_bounds         \* DXFParser.bounds of the one parser of the pipeline

vars == <<pc, elements, builds, _wall_solids, _openings_by_wall, model, stub,
          attempts, ifc_result, proc_result, layer_name, layer_info, probed,
          entity, element, scale_to_m, extracted, analysed, epc, doc,
          parsed_dxf, result, invocation,
          self_bounds>>

ifcVars == <<pc, elements, builds, _wall_solids, _openings_by_wall, model,
             stub, attempts, ifc_result, proc_result>>
layerVars == <<layer_name, layer_info, probed>>
extractVars == <<entity, element, scale_to_m, extracted, analysed, epc, doc,
                 parsed_dxf, result, invocation,
          self_bounds>>

\* dxf_parser.py line 244: DXFParser.bounds of a new parser (x and y)
ZeroBounds == [min |-> <<0, 0>>, max |-> <<0, 0>>]

\* Python None where a dict or an entity is expected
None == [none |-> TRUE]
\* no 2D segment
NoSegment == <<>>

(***************************************************************************)
(* Bounds                                                                  *)
(***************************************************************************)
MaxWalls == 2       \* walls in one element list handed to generate_ifc
MaxOpenings == 2    \* doors and windows in one element list
MaxBuilds == 2      \* generate_ifc calls made on the one shared generator
MaxOthers == 1      \* columns in one element list

(***************************************************************************)
(* Small helpers                                                           *)
(***************************************************************************)
Range(s) == {s[i] : i \in 1..Len(s)}

Min2(a, b) == IF a <= b THEN a ELSE b
Max2(a, b) == IF a >= b THEN a ELSE b

SeqsUpTo(S, n) == UNION {[1..k -> S] : k \in 0..n}

\* Python dict.get(key, default) on a record used as a dict
Get(d, k, default) == IF k \in DOMAIN d THEN d[k] ELSE default

(***************************************************************************)
(* Exact fractions <<n, d>> with d >= 0; <<1, 0>> stands for float('inf'). *)
(***************************************************************************)
Inf == <<1, 0>>
FracLess(x, y) == x[1] * y[2] < y[1] * x[2]
FracMin(x, y) == IF FracLess(y, x) THEN y ELSE x

(***************************************************************************)
(* backend/ifc_generator.py : geometry helpers of _build_native_ifc        *)
(***************************************************************************)

\* point_segment_distance, returned squared (math.hypot is monotone, so
\* every comparison of two distances is preserved).  Points are <<x, y>>.
point_segment_distance(p, a, b) ==
    LET vx == b[1] - a[1]
        vy == b[2] - a[2]
        wx == p[1] - a[1]
        wy == p[2] - a[2]
        seg_len2 == vx * vx + vy * vy
        dot == wx * vx + wy * vy
    IN  IF seg_len2 <= 0 THEN <<wx * wx + wy * wy, 1>>
        ELSE IF dot <= 0 THEN <<wx * wx + wy * wy, 1>>               \* t = 0
        ELSE IF dot >= seg_len2
             THEN <<(p[1] - b[1]) * (p[1] - b[1]) + (p[2] - b[2]) * (p[2] - b[2]), 1>>  \* t = 1
        ELSE <<(wx * wx + wy * wy) * seg_len2 - dot * dot, seg_len2>>

seg_to_seg_distance(a1, a2, b1, b2) ==
    FracMin(FracMin(point_segment_distance(a1, b1, b2),
                    point_segment_distance(a2, b1, b2)),
            FracMin(point_segment_distance(b1, a1, a2),
                    point_segment_distance(b2, a1, a2)))

\* 0.2 drawing units, squared
BoundaryReach == <<1, 25>>

\* the crude centre (cx, cy) of an element: bounds, then center, then the
\* first two points.  Coordinates of bounds and points are even integers in
\* this model, so the halving is exact.
Centre(geom) ==
    IF "bounds" \in DOMAIN geom /\ "min" \in DOMAIN geom.bounds
                                /\ "max" \in DOMAIN geom.bounds
    THEN <<(geom.bounds.min[1] + geom.bounds.max[1]) \div 2,
           (geom.bounds.min[2] + geom.bounds.max[2]) \div 2>>
    ELSE IF "center" \in DOMAIN geom THEN geom.center
    ELSE IF "points" \in DOMAIN geom /\ Len(geom.points) >= 2
    THEN <<(geom.points[1][1] + geom.points[2][1]) \div 2,
           (geom.points[1][2] + geom.points[2][2]) \div 2>>
    ELSE <<0, 0>>

\* the 2D segment captured for a wall, NoSegment when the geometry has none
WallSegment(geom) ==
    IF "points" \in DOMAIN geom /\ Len(geom.points) >= 2
    THEN <<geom.points[1], geom.points[2]>>
    ELSE IF "start" \in DOMAIN geom /\ "end" \in DOMAIN geom
    THEN <<geom.start, geom.end>>
    ELSE NoSegment

\* the position captured for a door or a window
OpeningAnchor(geom) ==
    IF "center" \in DOMAIN geom THEN geom.center
    ELSE IF "insert_point" \in DOMAIN geom THEN geom.insert_point
    ELSE Centre(geom)

\* polygon of a space element for the boundary pass, <<>> when it has none
SpaceVerts(geom) ==
    IF "vertices" \in DOMAIN geom /\ Len(geom.vertices) >= 3 THEN geom.vertices
    ELSE IF "bounds" \in DOMAIN geom /\ "min" \in DOMAIN geom.bounds
                                     /\ "max" \in DOMAIN geom.bounds
    THEN << <<geom.bounds.min[1], geom.bounds.min[2]>>,
            <<geom.bounds.max[1], geom.bounds.min[2]>>,
            <<geom.bounds.max[1], geom.bounds.max[2]>>,
            <<geom.bounds.min[1], geom.bounds.max[2]>> >>
    ELSE <<>>

RECURSIVE FindHostFrom(_, _, _, _, _)
FindHostFrom(walls_geo, i, p, best_wall, best_d) ==
    IF i > Len(walls_geo) THEN best_wall
    ELSE LET d == point_segment_distance(p, walls_geo[i].a, walls_geo[i].b)
         IN  IF FracLess(d, best_d)
             THEN FindHostFrom(walls_geo, i + 1, p, walls_geo[i].wall, d)
             ELSE FindHostFrom(walls_geo, i + 1, p, best_wall, best_d)

\* find_host_wall with a plausible fault: the first wall with a segment wins
find_host_wall_first(walls_geo, p) ==
    IF walls_geo = <<>> THEN None ELSE walls_geo[1].wall

find_host_wall(walls_geo, p) ==
    IF walls_geo = <<>> THEN None
    ELSE FindHostFrom(walls_geo, 1, p, None, Inf)

\* wall_dir is not modelled as a number: the direction of an opening is the
\* direction of the segment of its host, named by the host itself.

(***************************************************************************)
(* Python dicts kept as sequences of [key, value] in insertion order       *)
(***************************************************************************)
DictKeys(d) == {d[i].key : i \in 1..Len(d)}
DictGet(d, k, default) ==
    IF k \in DictKeys(d)
    THEN (CHOOSE e \in Range(d) : e.key = k).value
    ELSE default
DictSet(d, k, v) ==
    IF k \in DictKeys(d)
    THEN [i \in 1..Len(d) |-> IF d[i].key = k THEN [key |-> k, value |-> v] ELSE d[i]]
    ELSE Append(d, [key |-> k, value |-> v])


(***************************************************************************)
(* backend/ifc_generator.py : _build_native_ifc                            *)
(*                                                                         *)
(* An IFC entity is [file, class, name]: `file` numbers the model it was   *)
(* created in (one project.create_file per build), `name` is its Name.     *)
(***************************************************************************)
Entity(file, class, name) == [file |-> file, class |-> class, name |-> name]

ExtrudedSolid(product) == [item |-> "IfcExtrudedAreaSolid", product |-> product]

\* the build state threaded through the passes of _build_native_ifc
EmptyBuild(file, ws, obw) ==
    [file |-> file,
     products |-> <<>>,        \* every product created, in creation order
     walls |-> <<>>, walls_geo |-> <<>>,
     doors_pos |-> <<>>, windows_pos |-> <<>>, spaces |-> <<>>,
     openings |-> <<>>, voids |-> <<>>, fills |-> <<>>,
     boundaries |-> <<>>,
     opening_widths |-> <<>>,  \* width of the solid of each opening, in creation order
     Representation |-> <<>>,  \* dict product -> Items[0] of its Body shape
     foreign_clips |-> <<>>,   \* clipping results built from another file's solids
     wall_solids |-> ws, openings_by_wall |-> obw]

\* lines 191-287: one pass over the elements, in order
RECURSIVE CreateProducts(_, _, _)
CreateProducts(elems, i, b) ==
    IF i > Len(elems) THEN b
    ELSE
    LET el == elems[i]
        et == el.type
        geom == el.geometry
        c == Centre(geom)
        nm == <<et, i - 1>>
    IN
    IF et = "wall" THEN
        LET wall == Entity(b.file, "IfcWall", nm)
            seg == WallSegment(geom)
            solid == ExtrudedSolid(wall)
        IN CreateProducts(elems, i + 1,
             [b EXCEPT !.products = Append(@, wall),
                       !.walls = Append(@, wall),
                       !.walls_geo = IF seg = NoSegment THEN @
                                     ELSE Append(@, [wall |-> wall, a |-> seg[1], b |-> seg[2]]),
                       !.Representation = DictSet(@, wall, solid),
                       !.wall_solids = DictSet(@, wall, solid)])
    ELSE IF et = "door" THEN
        LET door == Entity(b.file, "IfcDoor", nm)
        IN CreateProducts(elems, i + 1,
             [b EXCEPT !.products = Append(@, door),
                       !.doors_pos = Append(@, [product |-> door, at |-> OpeningAnchor(geom)])])
    ELSE IF et = "window" THEN
        LET win == Entity(b.file, "IfcWindow", nm)
        IN CreateProducts(elems, i + 1,
             [b EXCEPT !.products = Append(@, win),
                       !.windows_pos = Append(@, [product |-> win, at |-> OpeningAnchor(geom)])])
    ELSE IF et \in {"space", "room"} THEN
        LET sp == Entity(b.file, "IfcSpace", nm)
        IN CreateProducts(elems, i + 1,
             [b EXCEPT !.products = Append(@, sp), !.spaces = Append(@, sp)])
    ELSE IF et = "floor" THEN
        LET slab == Entity(b.file, "IfcSlab", nm)
        IN CreateProducts(elems, i + 1, [b EXCEPT !.products = Append(@, slab)])
    ELSE CreateProducts(elems, i + 1, b)

\* RelateOpening with a plausible fault: the opening voids the first wall
RelateOpeningFirstWall(b, host, opening, product) ==
    [b EXCEPT
       !.products = Append(@, opening),
       !.openings = Append(@, opening),
       !.voids = Append(@, [RelatingBuildingElement |-> b.walls[1],
                            RelatedOpeningElement |-> opening]),
       !.fills = Append(@, [RelatingOpeningElement |-> opening,
                            RelatedBuildingElement |-> product]),
       !.Representation = DictSet(DictSet(@, opening, ExtrudedSolid(opening)),
                                  product, ExtrudedSolid(product)),
       !.openings_by_wall =
           DictSet(@, host, Append(DictGet(@, host, <<>>), ExtrudedSolid(opening)))]

\* lines 334-353 and 375-388: the opening product, its solid, IfcRelVoidsElement
\* from the host, IfcRelFillsElement to the door or window, the entry of
\* _openings_by_wall, and the body of the door or window itself
RelateOpening(b, host, opening, product) ==
    [b EXCEPT
       !.products = Append(@, opening),
       !.openings = Append(@, opening),
       !.voids = Append(@, [RelatingBuildingElement |-> host,
                            RelatedOpeningElement |-> opening]),
       !.fills = Append(@, [RelatingOpeningElement |-> opening,
                            RelatedBuildingElement |-> product]),
       !.Representation = DictSet(DictSet(@, opening, ExtrudedSolid(opening)),
                                  product, ExtrudedSolid(product)),
       !.openings_by_wall =
           DictSet(@, host, Append(DictGet(@, host, <<>>), ExtrudedSolid(opening)))]

\* lines 312-354 (tag "Door") and 356-389 (tag "Window")
RECURSIVE CreateOpenings(_, _, _, _)
CreateOpenings(tag, pos, k, b) ==
    IF k > Len(pos) THEN b
    ELSE
    LET host == find_host_wall(b.walls_geo, pos[k].at)
        opening == Entity(b.file, "IfcOpeningElement", <<"Opening_" \o tag, k - 1>>)
    IN
    IF host = None THEN CreateOpenings(tag, pos, k + 1, b)
    ELSE CreateOpenings(tag, pos, k + 1, RelateOpening(b, host, opening, pos[k].product))

\* base = wall_solid; for op in openers: base = DIFFERENCE(base, op)
RECURSIVE ClipChain(_, _, _)
ClipChain(base, openers, k) ==
    IF k > Len(openers) THEN base
    ELSE ClipChain([item |-> "IfcBooleanClippingResult",
                    FirstOperand |-> base, SecondOperand |-> openers[k]],
                   openers, k + 1)

\* lines 391-403.  The loop runs over every entry of _wall_solids.  An entry
\* whose wall and solids belong to an earlier file is handed to create_entity
\* of the current file: the library either rejects it (the exception ends the
\* loop and is swallowed) or accepts it; cross_file_raises picks the outcome.
RECURSIVE ApplyClipping(_, _, _, _)
ApplyClipping(ws, i, b, cross_file_raises) ==
    IF i > Len(ws) THEN b
    ELSE
    LET wall == ws[i].key
        openers == DictGet(b.openings_by_wall, wall, <<>>)
        base == ClipChain(ws[i].value, openers, 1)
    IN
    IF openers = <<>> THEN ApplyClipping(ws, i + 1, b, cross_file_raises)
    ELSE IF wall.file # b.file
    THEN IF cross_file_raises THEN b
         ELSE ApplyClipping(ws, i + 1,
                [b EXCEPT !.foreign_clips = Append(@, base)], cross_file_raises)
    ELSE ApplyClipping(ws, i + 1,
           [b EXCEPT !.Representation = DictSet(@, wall, base)], cross_file_raises)

\* lines 407-420: (space product, polygon) pairs, matched by order
RECURSIVE SpacePolys(_, _, _, _)
SpacePolys(elems, i, spaces, acc) ==
    IF i > Len(elems) THEN acc
    ELSE
    LET verts == IF elems[i].type \in {"space", "room"}
                 THEN SpaceVerts(elems[i].geometry) ELSE <<>>
    IN IF verts # <<>> /\ spaces # <<>>
       THEN SpacePolys(elems, i + 1, spaces,
              Append(acc, [sp |-> spaces[Min2(Len(acc), Len(spaces) - 1) + 1],
                           verts |-> verts]))
       ELSE SpacePolys(elems, i + 1, spaces, acc)

\* line 438: some polygon edge comes within 0.2 of the wall segment
Close(verts, g) ==
    \E e \in 1..Len(verts) :
        FracLess(seg_to_seg_distance(g.a, g.b, verts[e], verts[(e % Len(verts)) + 1]),
                 BoundaryReach)

\* lines 433-445: for every polygon, every wall segment, in order
RECURSIVE SpaceBoundaries(_, _, _, _)
SpaceBoundaries(polys, walls_geo, n, acc) ==
    IF n >= Len(polys) * Len(walls_geo) THEN acc
    ELSE
    LET s == (n \div Len(walls_geo)) + 1
        w == (n % Len(walls_geo)) + 1
    IN SpaceBoundaries(polys, walls_geo, n + 1,
         IF Close(polys[s].verts, walls_geo[w])
         THEN Append(acc, [RelatingSpace |-> polys[s].sp,
                           RelatedBuildingElement |-> walls_geo[w].wall])
         ELSE acc)

\* line 136: self.unit_scale for the drawings handed to generate_ifc, which
\* are in millimetres (_infer_unit_scale gives 0.001)
unit_scale == <<1, 1000>>

\* lines 28-51, in thousandths of a drawing unit, default_m and min_m given
\* in millimetres.  A raw_value that is no number is handed in as 0: both
\* leave candidate at None.
_normalize_length(scale, raw_value, default_mm, min_mm) ==
    LET default_units == (default_mm * scale[2]) \div scale[1]
        candidate ==
            IF raw_value <= 0 THEN default_units
            ELSE IF 10 * scale[1] < scale[2] /\ raw_value < 10
            THEN (raw_value * 1000 * scale[2]) \div scale[1]
            ELSE raw_value * 1000
        min_units == (min_mm * scale[2]) \div scale[1]
    IN IF candidate < min_units THEN Max2(min_units, default_units) ELSE candidate

\* next((e for e in elements if e.get('type','').lower() == et), {})
\*     .get('properties', {})
FirstProperties(elems, et) ==
    LET hits == {i \in 1..Len(elems) : elems[i].type = et}
    IN  IF hits = {} THEN <<>>
        ELSE Get(elems[CHOOSE i \in hits : \A j \in hits : i <= j], "properties", <<>>)

\* the properties of the element a product was created from (its name
\* carries the index of the element)
OwnProperties(elems, product) ==
    Get(elems[product.name[2] + 1], "properties", <<>>)

\* OpeningWidth with the width read from the element that fills the opening
OpeningWidthOwn(elems, product) ==
    IF product.class = "IfcDoor"
    THEN _normalize_length(unit_scale, Get(OwnProperties(elems, product), "width", 0), 900, 10)
    ELSE _normalize_length(unit_scale, Get(OwnProperties(elems, product), "width", 0), 1200, 10)

\* lines 328-331 (doors) and 364-371 (windows): the width of the opening
\* solid made for a door or window
OpeningWidth(elems, product) ==
    IF product.class = "IfcDoor"
    THEN _normalize_length(unit_scale, Get(FirstProperties(elems, "door"), "width", 0), 900, 10)
    ELSE _normalize_length(unit_scale, Get(FirstProperties(elems, "window"), "width", 0), 1200, 10)


\* lines 119-445
_build_native_ifc(file, elems, ws, obw, cross_file_raises) ==
    LET b1 == CreateProducts(elems, 1, EmptyBuild(file, ws, obw))
        b2 == CreateOpenings("Door", b1.doors_pos, 1, b1)
        b3 == CreateOpenings("Window", b2.windows_pos, 1, b2)
        b4 == ApplyClipping(b3.wall_solids, 1, b3, cross_file_raises)
    IN [b4 EXCEPT
         !.boundaries =
             SpaceBoundaries(SpacePolys(elems, 1, b4.spaces, <<>>), b4.walls_geo, 0, <<>>),
         !.opening_widths =
             [k \in 1..Len(b4.fills) |->
                 [opening |-> b4.fills[k].RelatingOpeningElement,
                  width |-> OpeningWidth(elems, b4.fills[k].RelatedBuildingElement)]]]


(***************************************************************************)
(* backend/ifc_generator.py : the degraded text stub                       *)
(***************************************************************************)
StubLimit == 50

\* _create_element_entities_with_map: the id map (ids "#10<i>" kept as pairs)
RECURSIVE StubIdMap(_, _, _)
StubIdMap(elems, i, m) ==
    IF i > Min2(Len(elems), StubLimit) THEN m
    ELSE
    LET et == elems[i].type
    IN StubIdMap(elems, i + 1,
         IF et = "wall" THEN [m EXCEPT !.walls = Append(@, <<"#10", i - 1>>)]
         ELSE IF et = "door" THEN [m EXCEPT !.doors = Append(@, <<"#20", i - 1>>)]
         ELSE IF et = "window" THEN [m EXCEPT !.windows = Append(@, <<"#30", i - 1>>)]
         ELSE IF et \in {"space", "room"} THEN [m EXCEPT !.spaces = Append(@, <<"#40", i - 1>>)]
         ELSE m)

\* the openings loop of _create_relationship_entities over one collection
RECURSIVE StubOpenings(_, _, _, _)
StubOpenings(coll, walls, idx, r) ==
    IF idx >= Len(coll) THEN r
    ELSE
    LET opening_id == <<"#", r.next_id>>
        wall_id == IF walls = <<>> THEN None
                   ELSE walls[(idx % Max2(1, Len(walls))) + 1]
        r1 == [r EXCEPT !.next_id = @ + 3]
    IN StubOpenings(coll, walls, idx + 1,
         IF wall_id = None THEN r1
         ELSE [r1 EXCEPT
                 !.openings = Append(@, opening_id),
                 !.voids = Append(@, [RelatingBuildingElement |-> wall_id,
                                      RelatedOpeningElement |-> opening_id]),
                 !.fills = Append(@, [RelatingOpeningElement |-> opening_id,
                                      RelatedBuildingElement |-> coll[idx + 1]])])

_create_relationship_entities(id_map) ==
    LET r0 == [next_id |-> 8000, openings |-> <<>>, voids |-> <<>>,
               fills |-> <<>>, boundaries |-> <<>>]
        r1 == StubOpenings(id_map.doors, id_map.walls, 0, r0)
        r2 == StubOpenings(id_map.windows, id_map.walls, 0, r1)
        ns == Min2(Len(id_map.spaces), 5)
        nw == Min2(Len(id_map.walls), 5)
    IN [r2 EXCEPT !.boundaries =
          [n \in 1..(ns * nw) |->
             [RelatingSpace |-> id_map.spaces[((n - 1) \div nw) + 1],
              RelatedBuildingElement |-> id_map.walls[((n - 1) % nw) + 1]]]]

_create_simple_ifc_content(elems) ==
    LET id_map == IF elems = <<>>
                  THEN [walls |-> <<>>, doors |-> <<>>, windows |-> <<>>, spaces |-> <<>>]
                  ELSE StubIdMap(elems, 1,
                         [walls |-> <<>>, doors |-> <<>>, windows |-> <<>>, spaces |-> <<>>])
    IN [id_map |-> id_map, rels |-> _create_relationship_entities(id_map)]


(***************************************************************************)
(* Elements handed to generate_ifc, as the extraction stage emits them     *)
(* (_element_to_dict); of `geometry` and `properties` the keys read here.  *)
(***************************************************************************)
LineGeometry(a, b) == [type |-> "LINE", start |-> a, end |-> b, points |-> <<a, b>>]

WallA == [type |-> "wall", geometry |-> LineGeometry(<<0, 0>>, <<8, 0>>)]
WallB == [type |-> "wall", geometry |-> LineGeometry(<<0, 4>>, <<8, 8>>)]
\* a CIRCLE on a wall layer: a wall without a 2D segment
WallNoSegment == [type |-> "wall",
                  geometry |-> [type |-> "CIRCLE", center |-> <<4, 2>>, radius |-> 1]]
\* an ARC far from every wall (squared distances: 1025 to WallA, 1073 to WallB)
DoorFar == [type |-> "door",
            geometry |-> [type |-> "ARC", center |-> <<40, 1>>, radius |-> 1]]
\* a LINE lying on WallB; its anchor is the midpoint <<4, 6>>
WindowOnB == [type |-> "window", geometry |-> LineGeometry(<<2, 6>>, <<6, 6>>)]
\* a generated space: POLYGON with points and bounds
SpaceRect == [type |-> "space",
              geometry |-> [type |-> "POLYGON",
                            points |-> << <<0, 0>>, <<8, 0>>, <<8, 4>>, <<0, 4>>, <<0, 0>> >>,
                            bounds |-> [min |-> <<0, 0>>, max |-> <<8, 4>>]]]
\* a CIRCLE that the extractor typed as a column
ColumnC == [type |-> "column",
            geometry |-> [type |-> "CIRCLE", center |-> <<2, 2>>, radius |-> 1]]
\* two doors on WallA, 800 and 1000 drawing units wide
DoorNarrow == [type |-> "door",
               geometry |-> [type |-> "ARC", center |-> <<2, 0>>, radius |-> 1],
               properties |-> [width |-> 800]]
DoorWide == [type |-> "door",
             geometry |-> [type |-> "ARC", center |-> <<6, 0>>, radius |-> 1],
             properties |-> [width |-> 1000]]
\* a room known by its label only: neither vertices nor bounds
SpaceBare == [type |-> "room",
              geometry |-> [type |-> "TEXT", insert_point |-> <<4, 2>>]]
\* a space whose polygon lies away from WallA (nearest edge at y = 20)
SpaceAway == [type |-> "space",
              geometry |-> [type |-> "POLYGON",
                            bounds |-> [min |-> <<0, 20>>, max |-> <<8, 24>>]]]
WallPool == {WallA, WallB, WallNoSegment}
OpeningPool == {DoorFar, WindowOnB}
OtherPool == {ColumnC}

\* the element lists handed to generate_ifc: up to MaxWalls walls followed by
\* up to MaxOpenings doors and windows in any order and up to MaxOthers
\* elements of the other types
ElementLists ==
    {ws \o os \o cs : ws \in SeqsUpTo(WallPool, MaxWalls),
                      os \in SeqsUpTo(OpeningPool, MaxOpenings),
                      cs \in SeqsUpTo(OtherPool, MaxOthers)}
      \cup {<<WallA, DoorWide>>, <<WallA, DoorNarrow, DoorWide>>,
            <<WallA, DoorWide, DoorNarrow>>, <<WallA, DoorFar, DoorNarrow>>}
      \cup {<<WallA, SpaceRect>>, <<WallA, SpaceRect, SpaceBare>>,
            <<WallA, SpaceBare, SpaceRect>>, <<WallA, SpaceAway, SpaceRect>>,
            <<WallA, SpaceBare, SpaceAway, SpaceRect>>}

(***************************************************************************)
(* backend/ifc_generator.py : IFCGenerator.generate_ifc, one action per    *)
(* tier outcome; backend/robust_processor.py : process_dxf_file, step 3    *)
(* onwards.                                                                *)
(***************************************************************************)
NoModel == [file |-> 0]

\* _generate_report on the native path (ifc_elements is never filled there)
_generate_report ==
    [total_elements |-> 0, element_types |-> <<>>, storeys_created |-> 1,
     project_name |-> "DXF Project", building_name |-> "Building"]

Succeeded(elems, report) ==
    [success |-> TRUE, ifc_path |-> "output_path",
     elements_created |-> Len(elems), report |-> report]

Failed ==
    [success |-> FALSE, error |-> "str(e)", ifc_path |-> None,
     elements_created |-> 0, report |-> <<>>]

Outcome(tier, how) == [tier |-> tier, outcome |-> how]

InitIfc ==
    /\ pc = "idle"
    /\ elements = <<>>
    /\ builds = 0
    /\ _wall_solids = <<>>
    /\ _openings_by_wall = <<>>
    /\ model = NoModel
    /\ stub = None
    /\ attempts = <<>>
    /\ ifc_result = None
    /\ proc_result = None

\* process_dxf_file step 3: generate_ifc is called on the shared generator
CallGenerateIfc ==
    /\ pc = "idle"
    /\ builds < MaxBuilds
    /\ \E elems \in ElementLists : elements' = elems
    /\ builds' = builds + 1
    /\ pc' = "native"
    /\ attempts' = <<>>
    /\ ifc_result' = None
    /\ proc_result' = None
    /\ stub' = None
    /\ model' = NoModel
    /\ UNCHANGED <<_wall_solids, _openings_by_wall, layerVars, extractVars>>

\* lines 69-79: the native build and the write succeed
NativeSucceeds ==
    /\ pc = "native"
    /\ \E cross_file_raises \in BOOLEAN :
         LET b == _build_native_ifc(builds, elements, _wall_solids,
                                    _openings_by_wall, cross_file_raises)
         IN /\ model' = b
            /\ _wall_solids' = b.wall_solids
            /\ _openings_by_wall' = b.openings_by_wall
    /\ attempts' = Append(attempts, Outcome("native", "ok"))
    /\ ifc_result' = Succeeded(elements, _generate_report)
    /\ pc' = "returned"
    /\ UNCHANGED <<elements, builds, stub, proc_result, layerVars, extractVars>>

\* lines 80-81: the native attempt raises, either before anything was built
\* (project.create_file) or at the end (model.write)
NativeRaises ==
    /\ pc = "native"
    /\ \/ UNCHANGED <<model, _wall_solids, _openings_by_wall>>
       \/ \E cross_file_raises \in BOOLEAN :
            LET b == _build_native_ifc(builds, elements, _wall_solids,
                                       _openings_by_wall, cross_file_raises)
            IN /\ model' = b
               /\ _wall_solids' = b.wall_solids
               /\ _openings_by_wall' = b.openings_by_wall
    /\ attempts' = Append(attempts, Outcome("native", "raised"))
    /\ pc' = "degraded"
    /\ UNCHANGED <<elements, builds, stub, ifc_result, proc_result, layerVars, extractVars>>

\* lines 83-93: the degraded text stub is written
DegradedSucceeds ==
    /\ pc = "degraded"
    /\ stub' = _create_simple_ifc_content(elements)
    /\ attempts' = Append(attempts, Outcome("degraded", "ok"))
    /\ ifc_result' = Succeeded(elements, [fallback |-> TRUE])
    /\ pc' = "returned"
    /\ UNCHANGED <<elements, builds, _wall_solids, _openings_by_wall, model,
                   proc_result, layerVars, extractVars>>

\* DegradedRaises with a plausible fault: the failure is returned at once
DegradedRaisesGivesUp ==
    /\ pc = "degraded"
    /\ attempts' = Append(attempts, Outcome("degraded", "raised"))
    /\ ifc_result' = Failed
    /\ pc' = "returned"
    /\ UNCHANGED <<elements, builds, _wall_solids, _openings_by_wall, model,
                   stub, proc_result, layerVars, extractVars>>

\* lines 95-96: the degraded stub raises (open or write fails)
DegradedRaises ==
    /\ pc = "degraded"
    /\ attempts' = Append(attempts, Outcome("degraded", "raised"))
    /\ pc' = "fallback"
    /\ UNCHANGED <<elements, builds, _wall_solids, _openings_by_wall, model,
                   stub, ifc_result, proc_result, layerVars, extractVars>>

\* lines 98-108: the empty project stub is written
FallbackSucceeds ==
    /\ pc = "fallback"
    /\ stub' = [id_map |-> None, rels |-> None]
    /\ attempts' = Append(attempts, Outcome("empty", "ok"))
    /\ ifc_result' = Succeeded(elements, [fallback |-> TRUE, error |-> "str(e)"])
    /\ pc' = "returned"
    /\ UNCHANGED <<elements, builds, _wall_solids, _openings_by_wall, model,
                   proc_result, layerVars, extractVars>>

\* lines 109-117: the empty project stub raises too
FallbackRaises ==
    /\ pc = "fallback"
    /\ attempts' = Append(attempts, Outcome("empty", "raised"))
    /\ ifc_result' = Failed
    /\ pc' = "returned"
    /\ UNCHANGED <<elements, builds, _wall_solids, _openings_by_wall, model,
                   stub, proc_result, layerVars, extractVars>>

\* robust_processor.py lines 372-379, 427-454 and 1627-1662: what
\* process_dxf_file returns once generate_ifc has returned.  Of the report,
\* the entries computed from ifc_result; the others come from the parse, the
\* extraction, the USD step and the GLB step.
_generate_processing_report(ifc) ==
    [ifc_generated |-> ifc.elements_created,
     ifc_success |-> ifc.success]

\* the value process_dxf_file returns for a given generate_ifc result
ProcessResult(ifc) ==
    IF ~ifc.success
    THEN [success |-> FALSE,
          error |-> "IFC generation failed: " \o ifc.error,
          steps_completed |-> 2]
    ELSE [success |-> TRUE,
          ifc_path |-> ifc.ifc_path,
          report |-> _generate_processing_report(ifc),
          steps_completed |-> 7]

ProcessReturns ==
    /\ pc = "returned"
    /\ proc_result' = ProcessResult(ifc_result)
    /\ pc' = "idle"
    /\ elements' = <<>>       \* the call is over: its argument, the graph and
    /\ model' = NoModel       \* the stub text are out of reach of the caller
    /\ stub' = None
    /\ UNCHANGED <<builds, _wall_solids, _openings_by_wall, attempts,
                   ifc_result, layerVars, extractVars>>

InitOther ==
    /\ layer_name = ""
    /\ layer_info = None
    /\ probed = <<>>
    /\ entity = None
    /\ element = None
    /\ scale_to_m = <<1, 1000>>
    /\ extracted = <<>>
    /\ analysed = 0
    /\ epc = "idle"
    /\ doc = None
    /\ parsed_dxf = None
    /\ result = None
    /\ invocation = <<>>
    /\ self_bounds = ZeroBounds

Init == InitIfc /\ InitOther

Next ==
    \/ CallGenerateIfc
    \/ NativeSucceeds
    \/ NativeRaises
    \/ DegradedSucceeds
    \/ DegradedRaises
    \/ FallbackSucceeds
    \/ FallbackRaises
    \/ ProcessReturns

Spec == Init /\ [][Next]_vars


(***************************************************************************)
(* Properties of the graph build (specification Spec)                      *)
(***************************************************************************)
NativeBuilt == model # NoModel

OpeningPositions == model.doors_pos \o model.windows_pos

\* the opening a door or window fills, and the wall that opening voids
OpeningsFilledBy(product) ==
    {model.fills[i].RelatingOpeningElement :
        i \in {j \in 1..Len(model.fills) : model.fills[j].RelatedBuildingElement = product}}
HostsOf(opening) ==
    {model.voids[i].RelatingBuildingElement :
        i \in {j \in 1..Len(model.voids) : model.voids[j].RelatedOpeningElement = opening}}
HostsOfProduct(product) == UNION {HostsOf(o) : o \in OpeningsFilledBy(product)}

SegmentOf(wall) == CHOOSE g \in Range(model.walls_geo) : g.wall = wall
WallsWithSegment == {g.wall : g \in Range(model.walls_geo)}
DistanceTo(p, wall) == point_segment_distance(p, SegmentOf(wall).a, SegmentOf(wall).b)

\* h is nearest to p among the walls that have a segment
Nearest(p, h) ==
    /\ h \in WallsWithSegment
    /\ \A w \in WallsWithSegment : ~FracLess(DistanceTo(p, w), DistanceTo(p, h))

RelsOK(openings, voids, fills) ==
    /\ Cardinality(Range(openings)) = Len(openings)
    /\ \A o \in Range(openings) :
          /\ Cardinality({i \in 1..Len(voids) : voids[i].RelatedOpeningElement = o}) = 1
          /\ Cardinality({i \in 1..Len(fills) : fills[i].RelatingOpeningElement = o}) <= 1
    /\ \A i \in 1..Len(voids) : voids[i].RelatedOpeningElement \in Range(openings)
    /\ \A i, j \in 1..Len(fills) :
          fills[i].RelatedBuildingElement = fills[j].RelatedBuildingElement => i = j

\* C2: after a graph build every Opening has exactly one Voids relationship,
\* whose relating element is the host wall resolved for the door or window
\* of that opening, and at most one Fills relationship; no door or window
\* fills more than one opening.
C2_OneVoidsAtMostOneFills ==
    /\ NativeBuilt =>
          /\ RelsOK(model.openings, model.voids, model.fills)
          /\ \A x \in Range(OpeningPositions) :
                \A o \in OpeningsFilledBy(x.product) :
                    HostsOf(o) = {find_host_wall(model.walls_geo, x.at)}
    /\ (stub # None /\ stub.rels # None) =>
          /\ RelsOK(stub.rels.openings, stub.rels.voids, stub.rels.fills)
          /\ \A i \in 1..Len(stub.rels.voids) :
                stub.rels.voids[i].RelatingBuildingElement \in Range(stub.id_map.walls)

\* a native graph in which an opening exists, voided from its host and filled
C2_Witness ==
    /\ NativeBuilt
    /\ model.openings # <<>>
    /\ Len(model.voids) = Len(model.openings)
    /\ Len(model.fills) = Len(model.openings)

\* the opening solids hosted by a wall, in creation order
HostedSolids(wall) ==
    LET idx == SelectSeq([i \in 1..Len(model.voids) |-> i],
                         LAMBDA i : model.voids[i].RelatingBuildingElement = wall)
    IN [n \in 1..Len(idx) |-> ExtrudedSolid(model.voids[idx[n]].RelatedOpeningElement)]

Tiers == <<"native", "degraded", "empty">>

LastAttempt == attempts[Len(attempts)]

\* C4: generate_ifc attempts the native build first, the degraded stub only
\* after the native attempt raised and the empty stub only after the
\* degraded stub raised too; once it is past its last attempt it has
\* returned a result dict (nothing is raised to the caller), with
\* success = false only when all three tiers raised.
C4_TierOrder ==
    /\ Len(attempts) <= 3
    /\ \A i \in 1..Len(attempts) :
          /\ attempts[i].tier = Tiers[i]
          /\ i < Len(attempts) => attempts[i].outcome = "raised"
    /\ (attempts # <<>> /\ pc \in {"returned", "idle"}) =>
          /\ ifc_result # None
          /\ ifc_result.success = (LastAttempt.outcome = "ok")
          /\ ~ifc_result.success =>
                /\ Len(attempts) = 3
                /\ \A i \in 1..3 : attempts[i].outcome = "raised"
    /\ (attempts # <<>> /\ pc \notin {"returned", "idle"}) =>
          /\ LastAttempt.outcome = "raised"
          /\ pc = IF Len(attempts) = 1 THEN "degraded" ELSE "fallback"

\* generate_ifc has returned success from the empty stub after two raises
C4_Witness ==
    /\ pc = "returned"
    /\ Len(attempts) = 3
    /\ ifc_result.success

\* the result generate_ifc returns for elems when tier t produced the output
TierResult(t, elems) ==
    Succeeded(elems,
              IF t = "native" THEN _generate_report
              ELSE IF t = "degraded" THEN [fallback |-> TRUE]
              ELSE [fallback |-> TRUE, error |-> "str(e)"])

\* C5: the result reports which tier produced the output: the result of
\* generate_ifc and the result of process_dxf_file both differ from what
\* they would have been had another tier produced the output.
C5_TierReported ==
    (pc \in {"returned", "idle"} /\ attempts # <<>> /\ ifc_result.success) =>
        \A t \in Range(Tiers) \ {LastAttempt.tier} :
            \A elems \in ElementLists :
                /\ ifc_result # TierResult(t, elems)
                /\ proc_result # None => proc_result # ProcessResult(TierResult(t, elems))

\* the part of C5 about generate_ifc alone
C5_GenerateIfcReportsTier ==
    (pc \in {"returned", "idle"} /\ attempts # <<>> /\ ifc_result.success) =>
        /\ \E elems \in ElementLists : ifc_result = TierResult(LastAttempt.tier, elems)
        /\ \A t \in Range(Tiers) \ {LastAttempt.tier} :
              \A elems \in ElementLists : ifc_result # TierResult(t, elems)


(***************************************************************************)
(* backend/dxf_parser.py : the layer classifier                            *)
(*                                                                         *)
(* Layer names are strings; they are read character by character.          *)
(***************************************************************************)
LAYER_TOKEN_EXPANSIONS ==
    <<
      [key |-> "RM", value |-> {"ROOM"}],
      [key |-> "RMS", value |-> {"ROOM"}],
      [key |-> "FLR", value |-> {"FLOOR"}],
      [key |-> "FL", value |-> {"FLOOR"}],
      [key |-> "FLRS", value |-> {"FLOOR"}],
      [key |-> "CLG", value |-> {"CEILING"}],
      [key |-> "CL", value |-> {"CEILING"}],
      [key |-> "CLNG", value |-> {"CEILING"}],
      [key |-> "SLB", value |-> {"SLAB"}],
      [key |-> "SLBS", value |-> {"SLAB"}],
      [key |-> "COL", value |-> {"COLUMN"}],
      [key |-> "COLS", value |-> {"COLUMN"}],
      [key |-> "STR", value |-> {"STRUCTURAL", "STRUCTURE"}],
      [key |-> "STRL", value |-> {"STRUCTURAL"}],
      [key |-> "MECH", value |-> {"MECHANICAL"}],
      [key |-> "ELEC", value |-> {"ELECTRICAL"}],
      [key |-> "ELE", value |-> {"ELECTRICAL"}],
      [key |-> "PWR", value |-> {"POWER"}],
      [key |-> "PLMB", value |-> {"PLUMBING"}],
      [key |-> "PLUM", value |-> {"PLUMBING"}],
      [key |-> "PLUMB", value |-> {"PLUMBING"}],
      [key |-> "SAN", value |-> {"SANITARY"}],
      [key |-> "HVAC", value |-> {"HVAC", "MECHANICAL"}],
      [key |-> "DUCT", value |-> {"DUCT"}],
      [key |-> "FP", value |-> {"FIRE"}],
      [key |-> "GRID", value |-> {"GRID"}],
      [key |-> "AX", value |-> {"AXIS"}],
      [key |-> "AXES", value |-> {"AXIS"}],
      [key |-> "FURN", value |-> {"FURNITURE"}],
      [key |-> "CASE", value |-> {"CASEWORK"}],
      [key |-> "CAB", value |-> {"CABINET"}],
      [key |-> "KIT", value |-> {"KITCHEN"}],
      [key |-> "BATH", value |-> {"BATHROOM"}],
      [key |-> "APPL", value |-> {"APPLIANCE"}],
      [key |-> "EQ", value |-> {"EQUIPMENT"}],
      [key |-> "EQUIP", value |-> {"EQUIPMENT"}],
      [key |-> "DATA", value |-> {"DATA"}],
      [key |-> "TEL", value |-> {"TELECOM"}],
      [key |-> "TELCO", value |-> {"TELECOM"}]
    >>

LAYER_CATEGORY_DEFINITIONS ==
    <<
      [category |-> "wall", priority |-> 95,
       keywords |-> {"ENCL", "MUR", "PART", "PARTITION", "PWALL", "WALL", "WALLS"},
       patterns |-> <<"A-WALL", "C-WALL", "WALL-">>,
       discipline |-> "architectural", system |-> "enclosure"],
      [category |-> "door", priority |-> 85,
       keywords |-> {"DOOR", "DOORFRAME", "DOORS", "JAMB"},
       patterns |-> <<"A-DOOR", "DOOR-">>,
       discipline |-> "architectural", system |-> "openings"],
      [category |-> "window", priority |-> 82,
       keywords |-> {"GLASS", "GLAZ", "WIN", "WINDOW", "WINDOWS"},
       patterns |-> <<"A-WINDOW", "WINDOW-">>,
       discipline |-> "architectural", system |-> "openings"],
      [category |-> "floor", priority |-> 78,
       keywords |-> {"FINISH", "FLOOR", "FLOORS", "SLAB", "TILE", "TILING"},
       patterns |-> <<"A-FLOOR", "SLAB-">>,
       discipline |-> "architectural", system |-> "floor_finish"],
      [category |-> "ceiling", priority |-> 76,
       keywords |-> {"CEILING", "CEILINGS", "CLG", "SOFFIT"},
       patterns |-> <<"A-CEILING", "CEIL-">>,
       discipline |-> "architectural", system |-> "ceiling_finish"],
      [category |-> "space", priority |-> 74,
       keywords |-> {"AREA", "ROOM", "SPACE", "ZONE"},
       patterns |-> <<"A-AREA", "A-ROOM">>,
       discipline |-> "architectural", system |-> "space"],
      [category |-> "dimension", priority |-> 60,
       keywords |-> {"DIM", "DIMENSION"},
       patterns |-> <<"A-DIM", "DIM-">>,
       discipline |-> "annotation", system |-> "dimensioning"],
      [category |-> "text", priority |-> 58,
       keywords |-> {"ANNO", "ANNOTATION", "LABEL", "NOTE", "TAG", "TEXT"},
       patterns |-> <<"A-ANNO", "A-TEXT">>,
       discipline |-> "annotation", system |-> "documentation"],
      [category |-> "structure_column", priority |-> 88,
       keywords |-> {"COL", "COLUMN", "COLUMNS", "PIER", "PILE"},
       patterns |-> <<"S-COL", "STR-COL">>,
       discipline |-> "structural", system |-> "column"],
      [category |-> "structure_beam", priority |-> 86,
       keywords |-> {"BEAM", "BEAMS", "BRACE", "FRAMING", "GIRDER"},
       patterns |-> <<"S-BEAM", "STR-BEAM">>,
       discipline |-> "structural", system |-> "beam"],
      [category |-> "structure_foundation", priority |-> 80,
       keywords |-> {"FOOTING", "FOUND", "FOUNDATION", "MAT", "PILECAP"},
       patterns |-> <<"S-FOOT", "S-FOUND">>,
       discipline |-> "structural", system |-> "foundation"],
      [category |-> "stair", priority |-> 72,
       keywords |-> {"STAIR", "STAIRS", "STEP", "STEPS"},
       patterns |-> <<"A-STAIR">>,
       discipline |-> "architectural", system |-> "vertical_transport"],
      [category |-> "furniture", priority |-> 70,
       keywords |-> {"BED", "CABINET", "CASEWORK", "DESK", "FFE", "FURN", "FURNITURE", "MILLWORK", "SOFA", "TABLE", "WARDROBE"},
       patterns |-> <<"I-FURN", "A-FURN">>,
       discipline |-> "interior", system |-> "furniture"],
      [category |-> "equipment", priority |-> 68,
       keywords |-> {"APPL", "APPLIANCE", "CASEWORK", "EQUIP", "EQUIPMENT"},
       patterns |-> <<"ME-EQ", "EQP-">>,
       discipline |-> "equipment", system |-> "equipment"],
      [category |-> "mep_plumbing", priority |-> 84,
       keywords |-> {"DRAIN", "PIPE", "PIPING", "PLUMB", "PLUMBING", "SAN", "SANITARY", "SEWER", "VENT", "WASTE", "WATER", "WTR"},
       patterns |-> <<"P-PLUM", "MEP-PLUM", "PLUMB-">>,
       discipline |-> "plumbing", system |-> "plumbing"],
      [category |-> "mep_hvac", priority |-> 84,
       keywords |-> {"AC", "AHU", "AIR", "DUCT", "FCU", "HVAC", "MECH", "MECHANICAL", "RETURN", "SUPPLY", "VAV", "VENT"},
       patterns |-> <<"M-HVAC", "M-DUCT", "MEP-HVAC">>,
       discipline |-> "mechanical", system |-> "hvac"],
      [category |-> "mep_electrical", priority |-> 84,
       keywords |-> {"CABLE", "CONDUIT", "DATA", "ELEC", "ELECT", "ELECTRICAL", "LIGHT", "LIGHTING", "LTS", "PANEL", "POWER", "PWR", "SECURITY", "SWITCH", "TELECOM"},
       patterns |-> <<"E-POWR", "E-LITE", "MEP-ELEC">>,
       discipline |-> "electrical", system |-> "electrical"],
      [category |-> "mep_fire_protection", priority |-> 75,
       keywords |-> {"ALARM", "FIRE", "FP", "SPRINK", "SPRINKLER"},
       patterns |-> <<"FP-", "FIRE-">>,
       discipline |-> "fire_protection", system |-> "fire_protection"],
      [category |-> "landscape", priority |-> 60,
       keywords |-> {"GRADE", "HARDSCAPE", "LAND", "LANDSCAPE", "PLANT", "SITE", "TOPO", "TREE"},
       patterns |-> <<"C-LAND", "SITE-">>,
       discipline |-> "site", system |-> "landscape"],
      [category |-> "grid", priority |-> 62,
       keywords |-> {"AXES", "AXIS", "GRID"},
       patterns |-> <<"GRID-", "AXIS-">>,
       discipline |-> "structural", system |-> "grid"],
      [category |-> "roof", priority |-> 70,
       keywords |-> {"ROOF", "ROOFING"},
       patterns |-> <<"A-ROOF">>,
       discipline |-> "architectural", system |-> "roof"]
    >>

DISCIPLINE_HINTS ==
    <<
      [key |-> "architectural", value |-> {"A", "AR", "ARCH", "FIN", "FURNITURE", "INT", "ROOM", "SPACE"}],
      [key |-> "structural", value |-> {"AXIS", "GRID", "S", "STR", "STRUCT", "STRUCTURAL"}],
      [key |-> "mechanical", value |-> {"AIR", "DUCT", "HVAC", "M", "MECH", "MECHANICAL"}],
      [key |-> "electrical", value |-> {"DATA", "E", "ELEC", "ELECT", "LIGHT", "POWER"}],
      [key |-> "plumbing", value |-> {"P", "PIPE", "PLUMB", "SAN", "WASTE"}],
      [key |-> "fire_protection", value |-> {"FIRE", "FP", "SPRINK"}],
      [key |-> "site", value |-> {"C", "CIVIL", "LAND", "SITE"}]
    >>


\* str.upper() on ASCII
LowerCase == "abcdefghijklmnopqrstuvwxyz"
UpperCase == "ABCDEFGHIJKLMNOPQRSTUVWXYZ"

UpperChar(c) ==
    IF \E i \in 1..26 : SubSeq(LowerCase, i, i) = c
    THEN LET i == CHOOSE i \in 1..26 : SubSeq(LowerCase, i, i) = c
         IN SubSeq(UpperCase, i, i)
    ELSE c

RECURSIVE upper(_)
upper(s) ==
    IF s = "" THEN ""
    ELSE UpperChar(SubSeq(s, 1, 1)) \o upper(SubSeq(s, 2, Len(s)))

\* the characters of [A-Z0-9]
AlnumChars ==
    {"A", "B", "C", "D", "E", "F", "G", "H", "I", "J", "K", "L", "M",
     "N", "O", "P", "Q", "R", "S", "T", "U", "V", "W", "X", "Y", "Z",
     "0", "1", "2", "3", "4", "5", "6", "7", "8", "9"}

\* re.split(r'[^A-Z0-9]+', name_upper) without the empty tokens
RECURSIVE SplitTokens(_, _, _, _)
SplitTokens(s, i, cur, acc) ==
    IF i > Len(s) THEN (IF cur = "" THEN acc ELSE Append(acc, cur))
    ELSE LET c == SubSeq(s, i, i)
         IN  IF c \in AlnumChars THEN SplitTokens(s, i + 1, cur \o c, acc)
             ELSE SplitTokens(s, i + 1, "", IF cur = "" THEN acc ELSE Append(acc, cur))

\* `pattern in name_upper`
Contains(s, pattern) ==
    \E i \in 1..(Len(s) - Len(pattern) + 1) :
        SubSeq(s, i, i + Len(pattern) - 1) = pattern

\* lines 581-594 with the abbreviation replaced by its expansion
_tokenize_layer_name_replacing(name) ==
    LET raw_tokens == SplitTokens(upper(name), 1, "", <<>>)
        token_set == Range(raw_tokens)
    IN [raw_tokens |-> raw_tokens,
        expanded |-> {tk \in token_set : DictGet(LAYER_TOKEN_EXPANSIONS, tk, {}) = {}} \cup
            UNION {DictGet(LAYER_TOKEN_EXPANSIONS, tk, {}) : tk \in token_set}]

\* lines 581-594: (raw_tokens, expanded)
_tokenize_layer_name(name) ==
    LET raw_tokens == SplitTokens(upper(name), 1, "", <<>>)
        token_set == Range(raw_tokens)
    IN [raw_tokens |-> raw_tokens,
        expanded |-> token_set \cup
            UNION {DictGet(LAYER_TOKEN_EXPANSIONS, tk, {}) : tk \in token_set}]

\* lines 596-623
_infer_discipline(tokens, classification) ==
    LET hit == {i \in 1..Len(DISCIPLINE_HINTS) : tokens \cap DISCIPLINE_HINTS[i].value # {}}
    IN  IF hit # {}
        THEN DISCIPLINE_HINTS[CHOOSE i \in hit : \A j \in hit : i <= j].key
        ELSE CASE classification \in {"wall", "door", "window", "floor", "ceiling",
                                      "space", "stair", "roof"} -> "architectural"
               [] classification \in {"text", "dimension"} -> "annotation"
               [] classification \in {"structure_column", "structure_beam",
                                      "structure_foundation", "grid"} -> "structural"
               [] classification = "furniture" -> "interior"
               [] classification = "equipment" -> "equipment"
               [] classification = "mep_plumbing" -> "plumbing"
               [] classification = "mep_hvac" -> "mechanical"
               [] classification = "mep_electrical" -> "electrical"
               [] classification = "mep_fire_protection" -> "fire_protection"
               [] classification = "landscape" -> "site"
               [] OTHER -> "general"

\* lines 625-645
_legacy_classification(name_upper) ==
    LET any(patterns) == \E p \in patterns : Contains(name_upper, p)
    IN  IF any({"WALL", "MUR", "WALLS", "A-WALL"}) THEN "wall"
        ELSE IF any({"DOOR", "DOORS", "A-DOOR"}) THEN "door"
        ELSE IF any({"WINDOW", "WINDOWS", "WIN", "A-WINDOW"}) THEN "window"
        ELSE IF any({"FLOOR", "SLAB", "FLOORS", "A-FLOOR"}) THEN "floor"
        ELSE IF any({"CEILING", "CEIL", "A-CEILING"}) THEN "ceiling"
        ELSE IF any({"ROOM", "SPACE", "AREA", "A-AREA"}) THEN "space"
        ELSE IF any({"TEXT", "TEXTS", "LABEL", "NOTE"}) THEN "text"
        ELSE IF any({"DIM", "DIMS", "DIMENSION"}) THEN "dimension"
        ELSE IF any({"BEAM", "COLUMN", "STRUCTURE"}) THEN "structure"
        ELSE "other"

\* RuleScore with a plausible fault: the priority of the rule is left out
RuleScoreNoPriority(definition, matched_keywords, pattern_hits) ==
    (IF matched_keywords # {} THEN Cardinality(matched_keywords) * 6 ELSE 0)
    + (IF pattern_hits # <<>> THEN 10 * Len(pattern_hits) ELSE 0)

\* lines 661-665
RuleScore(definition, matched_keywords, pattern_hits) ==
    (IF matched_keywords # {}
     THEN definition.priority + Cardinality(matched_keywords) * 6 ELSE 0)
    + (IF pattern_hits # <<>> THEN 10 * Len(pattern_hits) ELSE 0)

\* RuleConfidence with a plausible fault: the score is not clamped
RuleConfidenceUnclamped(score) == score * 10

\* lines 681 and 696: round(max(0.25, min(1.0, score / 100.0)), 3), in
\* thousandths; the score is an integer, so the rounding changes nothing
RuleConfidence(score) == Max2(250, Min2(1000, score * 10))

\* FallbackConfidence with a plausible fault: every fallback gets 0.2
FallbackConfidenceFlat(classification) == 200

\* line 692, in thousandths
FallbackConfidence(classification) == IF classification # "other" THEN 200 ELSE 0

\* lines 652-672: the matches, in the order of the rules
RuleMatches(name_upper, token_set) ==
    LET Match(i) ==
            LET definition == LAYER_CATEGORY_DEFINITIONS[i]
                matched_keywords == token_set \cap definition.keywords
                pattern_hits == SelectSeq(definition.patterns,
                                          LAMBDA p : Contains(name_upper, p))
            IN [category |-> definition.category,
                score |-> RuleScore(definition, matched_keywords, pattern_hits),
                rule |-> definition,
                matched_keywords |-> matched_keywords,
                pattern_hits |-> pattern_hits]
    IN SelectSeq([i \in 1..Len(LAYER_CATEGORY_DEFINITIONS) |-> Match(i)],
                 LAMBDA m : m.matched_keywords # {} \/ m.pattern_hits # <<>>)

\* line 674 and 677: matches[0] after the stable sort on (score, priority),
\* reversed: the earliest match among those with the greatest key
BestMatch(matches) ==
    LET Less(x, y) == \/ x.score < y.score
                      \/ x.score = y.score /\ x.rule.priority < y.rule.priority
        top == {i \in 1..Len(matches) : \A j \in 1..Len(matches) : ~Less(matches[i], matches[j])}
    IN matches[CHOOSE i \in top : \A j \in top : i <= j]

\* lines 647-701.  `tags` is kept as the set that sorted() lists.
_analyze_layer(name) ==
    LET name_upper == upper(name)
        tk == _tokenize_layer_name(name)
        matches == RuleMatches(name_upper, tk.expanded)
    IN  IF matches # <<>>
        THEN LET best == BestMatch(matches)
             IN [classification |-> best.category,
                 classification_confidence |-> RuleConfidence(best.score),
                 classification_source |-> "rule",
                 discipline |-> IF best.rule.discipline # "" THEN best.rule.discipline
                                ELSE _infer_discipline(tk.expanded, best.category),
                 system |-> best.rule.system,
                 tags |-> best.matched_keywords \cup Range(best.pattern_hits)
                              \cup {best.category},
                 tokens |-> tk.raw_tokens]
        ELSE LET classification == _legacy_classification(name_upper)
             IN [classification |-> classification,
                 classification_confidence |-> FallbackConfidence(classification),
                 classification_source |-> "fallback",
                 discipline |-> _infer_discipline(tk.expanded, classification),
                 system |-> "None",      \* Python None beside the system names
                 tags |-> IF classification # "other" THEN {classification} ELSE {},
                 tokens |-> tk.raw_tokens]


(***************************************************************************)
(* Layer names handed to _analyze_layer: MaxTokens words joined by "-".    *)
(* The empty word is included, so the empty name and names of separators   *)
(* only occur; in "DRYWALL" a keyword is glued to its neighbour.           *)
(***************************************************************************)
MaxTokens == 3      \* words in one layer name
MaxCalls == 3       \* _analyze_layer calls in one behaviour

LayerWords == {"", "A", "WALL", "wall", "EXIST", "RM", "VENT", "DRYWALL"}

RECURSIVE NamesOf(_)
NamesOf(n) ==
    IF n <= 1 THEN LayerWords
    ELSE {w \o "-" \o r : w \in LayerWords, r \in NamesOf(n - 1)}

LayerNames == NamesOf(MaxTokens)

\* names analysed between two calls on layer_name
OtherNames == {"M-HVAC"}

InitLayer ==
    /\ InitIfc
    /\ layer_name \in LayerNames
    /\ layer_info = None
    /\ probed = <<>>
    /\ entity = None
    /\ element = None
    /\ scale_to_m = <<1, 1000>>
    /\ extracted = <<>>
    /\ analysed = 0
    /\ epc = "idle"
    /\ doc = None
    /\ parsed_dxf = None
    /\ result = None
    /\ invocation = <<>>
    /\ self_bounds = ZeroBounds

\* _analyze_layer(layer_name): reads the name and the module tables only
AnalyzeLayer ==
    /\ Len(probed) < MaxCalls
    /\ layer_info' = _analyze_layer(layer_name)
    /\ probed' = Append(probed, [name |-> layer_name, info |-> layer_info'])
    /\ UNCHANGED <<ifcVars, layer_name, extractVars>>

\* _analyze_layer on another name, between two calls on layer_name
AnalyzeOther ==
    /\ Len(probed) < MaxCalls
    /\ \E n \in OtherNames :
          probed' = Append(probed, [name |-> n, info |-> _analyze_layer(n)])
    /\ UNCHANGED <<ifcVars, layer_name, layer_info, extractVars>>

NextLayer ==
    \/ AnalyzeLayer
    \/ AnalyzeOther

SpecLayer == InitLayer /\ [][NextLayer]_vars

(***************************************************************************)
(* Properties of the layer classifier (specification SpecLayer)            *)
(***************************************************************************)

\* the call made last, with the value it returned
LastCall == probed[Len(probed)]

\* C6: for every layer name the classifier returns a confidence in [0, 1]
\* (0..1000 thousandths), and whenever the source is 'fallback' the
\* confidence is at most 0.2.
C6_ConfidenceRange ==
    \A i \in 1..Len(probed) :
        /\ probed[i].info.classification_confidence \in 0..1000
        /\ probed[i].info.classification_source = "fallback" =>
              probed[i].info.classification_confidence <= 200

\* a name classified by the legacy substrings, with confidence 0.2, and a
\* name classified by a rule with the confidence clamped to 1.0
C6_Witness ==
    /\ layer_info # None
    /\ layer_info.classification_source = "fallback"
    /\ layer_info.classification_confidence = 200
    /\ \E i \in 1..Len(probed) : probed[i].info.classification_confidence = 1000

\* no rule keyword, no rule pattern and no legacy substring matches the name
Unmapped(name) ==
    LET name_upper == upper(name)
        token_set == _tokenize_layer_name(name).expanded
    IN /\ \A i \in 1..Len(LAYER_CATEGORY_DEFINITIONS) :
             /\ token_set \cap LAYER_CATEGORY_DEFINITIONS[i].keywords = {}
             /\ \A p \in Range(LAYER_CATEGORY_DEFINITIONS[i].patterns) :
                   ~Contains(name_upper, p)
       /\ \A p \in {"WALL", "MUR", "DOOR", "WIN", "FLOOR", "SLAB", "CEIL", "ROOM",
                     "SPACE", "AREA", "TEXT", "LABEL", "NOTE", "DIM", "BEAM",
                     "COLUMN", "STRUCTURE"} : ~Contains(name_upper, p)

Categories ==
    {LAYER_CATEGORY_DEFINITIONS[i].category : i \in 1..Len(LAYER_CATEGORY_DEFINITIONS)}
        \cup {"structure", "other"}

WallSelectedByKeyword(name) ==
    LET matches == RuleMatches(upper(name), _tokenize_layer_name(name).expanded)
        best == BestMatch(matches)
    IN /\ matches # <<>>
       /\ best.rule = LAYER_CATEGORY_DEFINITIONS[1]
       /\ best.matched_keywords # {}

IsArchitecturalWall(info) ==
    /\ info.classification = "wall"
    /\ info.discipline = "architectural"
    /\ info.classification_confidence >= 800

\* C10: layer "A-WALL-EXIST", and every layer name for which the wall rule
\* is the selected rule through at least one matched keyword, is classified
\* as category wall with discipline architectural and confidence >= 0.8.
C10_WallLayer ==
    (probed # <<>> /\ (LastCall.name = "A-WALL-EXIST"
                          \/ WallSelectedByKeyword(LastCall.name)))
        => IsArchitecturalWall(LastCall.info)

\* "A-WALL-EXIST" has been analysed
C10_Witness ==
    /\ layer_name = "A-WALL-EXIST"
    /\ layer_info # None
    /\ WallSelectedByKeyword(layer_name)
    /\ IsArchitecturalWall(layer_info)


(***************************************************************************)
(* backend/geometry_extractor.py : the element classifier                  *)
(*                                                                         *)
(* scale_to_m is a fraction <<n, d>> (metres per drawing unit).  Radii and *)
(* areas are integers in drawing units; the length of a LINE is kept       *)
(* squared (field length2), and every threshold test on it is the squared  *)
(* form of the test in the source.  Confidences are in thousandths.        *)
(***************************************************************************)

\* lines 136-148, 168-186: the keys the predicates read
_calculate_geometry_properties(entity_type, geometry) ==
    IF entity_type = "LINE"
    THEN [type |-> geometry.type, start |-> geometry.start, end |-> geometry.end,
          length2 |-> (geometry.end[1] - geometry.start[1]) * (geometry.end[1] - geometry.start[1])
                    + (geometry.end[2] - geometry.start[2]) * (geometry.end[2] - geometry.start[2]),
          points |-> <<geometry.start, geometry.end>>]
    ELSE geometry

\* the layer table of the parsed drawing: DXFParser._extract_layers stores the
\* analysis of every layer of the drawing under its name
LayerTable == {"A-WALL-EXIST", "M-HVAC", "0", "A-ROOM", "M-HVAC-DRAIN"}
layers == [name \in LayerTable |-> _analyze_layer(name)]

\* lines 290-309
_build_layer_context(info) ==
    LET classification == Get(info, "classification", "other")
        discipline == Get(info, "discipline", "None")
        system == Get(info, "system", "None")
        tags == {upper(tag) : tag \in Get(info, "tags", {})} \cup {upper(classification)}
        tokens == {upper(tok) : tok \in Range(Get(info, "tokens", <<>>))}
    IN [classification |-> classification,
        discipline |-> discipline,
        system |-> system,
        tags |-> tags,
        tokens |-> tokens,
        layer_confidence |-> Get(info, "classification_confidence", 0),
        has_semantic_hit |-> (tags # {} \/ tokens # {} \/ system # "None"
                                \/ discipline # "None")]

\* lines 311-318.  layer_conf * 0.4 is exact: layer confidences are multiples
\* of ten thousandths.
_confidence_from_context(layer_context, base_score) ==
    LET layer_conf == layer_context.layer_confidence
        c1 == base_score + (IF layer_conf # 0 THEN Min2(350, (layer_conf * 4) \div 10) ELSE 0)
        c2 == c1 + (IF layer_context.has_semantic_hit THEN 50 ELSE 0)
    IN Max2(300, Min2(1000, c2))

\* `any(pattern in text for pattern in patterns)`
AnyIn(patterns, text) == \E p \in patterns : Contains(text, p)

\* (geometry.get('name') or geometry.get('block_name') or '').upper()
BlockName(geometry) ==
    LET name == Get(geometry, "name", "")
    IN upper(IF name # "" THEN name ELSE Get(geometry, "block_name", ""))

\* lines 320-353
_is_wall(scale, entity_type, layer, layer_classification, geometry, layer_context) ==
    \/ layer_classification \in {"wall", "structure_wall"}
    \/ "WALL" \in layer_context.tags
    \/ "WALL" \in layer_context.tokens
    \/ layer_context.discipline = "architectural" /\ Contains(upper(layer), "WALL")
    \/ /\ entity_type = "LINE"                \* length * scale_to_m > 0.5
       /\ 4 * Get(geometry, "length2", 0) * scale[1] * scale[1] > scale[2] * scale[2]
    \/ /\ entity_type \in {"LWPOLYLINE", "POLYLINE"}
       /\ Get(geometry, "closed", FALSE)
       /\ Get(geometry, "area", 0) > 1000

\* _is_door with a plausible fault: the ends of the radius range are left out
_is_door_open_range(scale, entity_type, layer, layer_classification, geometry, layer_context) ==
    \/ layer_classification = "door"
    \/ "DOOR" \in layer_context.tags
    \/ "DOOR" \in layer_context.tokens
    \/ entity_type = "INSERT" /\ AnyIn({"DOOR", "DR"}, BlockName(geometry))
    \/ /\ entity_type = "ARC"
       /\ 10 * Get(geometry, "radius", 0) * scale[1] > 4 * scale[2]
       /\ 10 * Get(geometry, "radius", 0) * scale[1] < 13 * scale[2]

\* lines 355-383
_is_door(scale, entity_type, layer, layer_classification, geometry, layer_context) ==
    \/ layer_classification = "door"
    \/ "DOOR" \in layer_context.tags
    \/ "DOOR" \in layer_context.tokens
    \/ entity_type = "INSERT" /\ AnyIn({"DOOR", "DR"}, BlockName(geometry))
    \/ /\ entity_type = "ARC"                 \* 0.4 <= radius * scale_to_m <= 1.3
       /\ 10 * Get(geometry, "radius", 0) * scale[1] >= 4 * scale[2]
       /\ 10 * Get(geometry, "radius", 0) * scale[1] <= 13 * scale[2]

\* lines 385-413
_is_window(scale, entity_type, layer, layer_classification, geometry, layer_context) ==
    \/ layer_classification = "window"
    \/ "WINDOW" \in layer_context.tags
    \/ "WINDOW" \in layer_context.tokens
    \/ entity_type = "INSERT" /\ AnyIn({"WINDOW", "WIN"}, BlockName(geometry))
    \/ /\ entity_type = "LINE"                \* 0.4 <= length * scale_to_m <= 4.0
       /\ 25 * Get(geometry, "length2", 0) * scale[1] * scale[1] >= 4 * scale[2] * scale[2]
       /\ Get(geometry, "length2", 0) * scale[1] * scale[1] <= 16 * scale[2] * scale[2]

\* closed outline whose area in square metres exceeds 2.0
LargeClosedOutline(scale, entity_type, geometry) ==
    /\ entity_type \in {"LWPOLYLINE", "POLYLINE", "HATCH", "SPLINE"}
    /\ Get(geometry, "closed", FALSE)
    /\ Get(geometry, "area", 0) * scale[1] * scale[1] > 2 * scale[2] * scale[2]

\* lines 415-440
_is_floor(scale, entity_type, layer, layer_classification, geometry, layer_context) ==
    \/ layer_classification = "floor"
    \/ {"FLOOR", "SLAB"} \cap layer_context.tags # {}
    \/ {"FLOOR", "SLAB"} \cap layer_context.tokens # {}
    \/ LargeClosedOutline(scale, entity_type, geometry)

\* lines 442-457
_is_ceiling(scale, entity_type, layer, layer_classification, geometry, layer_context) ==
    \/ layer_classification = "ceiling"
    \/ "CEILING" \in layer_context.tags
    \/ "CEIL" \in layer_context.tokens

\* lines 459-488
_is_space(scale, entity_type, layer, layer_classification, geometry, layer_context) ==
    \/ layer_classification = "space"
    \/ {"ROOM", "SPACE"} \cap layer_context.tags # {}
    \/ /\ entity_type \in {"TEXT", "MTEXT"}
       /\ AnyIn({"ROOM", "SPACE", "AREA", "OFFICE", "BEDROOM", "KITCHEN"},
                upper(Get(geometry, "text", "")))
    \/ LargeClosedOutline(scale, entity_type, geometry)

\* lines 528-560
_is_column(scale, entity_type, layer, layer_classification, geometry, layer_context) ==
    \/ layer_classification \in {"structure_column", "column"}
    \/ "COLUMN" \in layer_context.tags
    \/ /\ layer_context.discipline = "structural"
       /\ AnyIn({"COLUMN", "COL", "PILAR", "PIER"}, upper(layer))
    \/ {"COLUMN", "COL"} \cap layer_context.tokens # {}
    \/ entity_type = "INSERT" /\ AnyIn({"COLUMN", "COL", "PILAR"}, BlockName(geometry))
    \/ /\ entity_type = "CIRCLE"              \* 0.08 <= radius * scale_to_m <= 0.5
       /\ 100 * Get(geometry, "radius", 0) * scale[1] >= 8 * scale[2]
       /\ 2 * Get(geometry, "radius", 0) * scale[1] <= scale[2]

\* lines 562-587
_is_beam(scale, entity_type, layer, layer_classification, geometry, layer_context) ==
    \/ layer_classification \in {"structure_beam", "beam"}
    \/ {"BEAM", "GIRDER"} \cap layer_context.tags # {}
    \/ /\ layer_context.discipline = "structural"
       /\ AnyIn({"BEAM", "GIRDER"}, upper(layer))
    \/ {"BEAM", "GIRDER"} \cap layer_context.tokens # {}
    \/ entity_type = "INSERT" /\ AnyIn({"BEAM", "GIRDER"}, BlockName(geometry))

\* lines 589-608
_is_stair(scale, entity_type, layer, layer_classification, geometry, layer_context) ==
    \/ AnyIn({"STAIR", "STAIRS", "STEPS"}, upper(layer))
    \/ /\ entity_type = "INSERT"
       /\ AnyIn({"STAIR", "STAIRS", "STEPS"}, upper(Get(geometry, "name", "")))

\* lines 610-637: the MEP type, "None" when the entity is no MEP component
_is_mep_component(entity_type, layer, geometry, layer_context) ==
    LET classification == layer_context.classification
        tokens == layer_context.tokens
        discipline == layer_context.discipline
    IN  IF classification \in {"mep_plumbing", "mep_hvac", "mep_electrical",
                               "mep_fire_protection"} THEN classification
        ELSE IF discipline = "plumbing"
                \/ {"PLUMBING", "SANITARY", "DRAIN", "WASTE"} \cap tokens # {}
        THEN "mep_plumbing"
        ELSE IF discipline = "mechanical" \/ {"HVAC", "DUCT", "VENT", "AIR"} \cap tokens # {}
        THEN "mep_hvac"
        ELSE IF discipline = "electrical"
                \/ {"ELECT", "POWER", "LIGHT", "LIGHTING", "DATA"} \cap tokens # {}
        THEN "mep_electrical"
        ELSE IF discipline = "fire_protection"
                \/ {"FIRE", "SPRINKLER", "ALARM"} \cap tokens # {}
        THEN "mep_fire_protection"
        ELSE IF {"MOTOR", "EQUIPMENT"} \cap layer_context.tags # {} THEN "mep_equipment"
        ELSE "None"

\* lines 639-660
_is_furniture(entity_type, layer, geometry, layer_context) ==
    \/ layer_context.classification \in {"furniture", "interior_furniture"}
    \/ /\ layer_context.discipline = "interior"
       /\ {"FURN", "SOFA", "BED", "TABLE", "CHAIR"} \cap layer_context.tokens # {}
    \/ {"FURNITURE", "MILLWORK", "CASEWORK"} \cap layer_context.tags # {}
    \/ /\ entity_type = "INSERT"
       /\ AnyIn({"SOFA", "BED", "CHAIR", "TABLE", "WARDROBE", "CABINET"}, BlockName(geometry))

FixtureKeywords ==
    {"SINK", "WC", "TOILET", "BATH", "SHOWER", "OVEN", "COOK", "HOB", "APPLIANCE",
     "FRIDGE", "LIGHT"}

\* lines 662-685
_is_fixture(entity_type, layer, geometry, layer_context) ==
    \/ layer_context.classification \in {"equipment", "fixture", "appliance"}
    \/ FixtureKeywords \cap layer_context.tokens # {}
    \/ entity_type = "INSERT" /\ AnyIn(FixtureKeywords, BlockName(geometry))
    \/ FixtureKeywords \cap layer_context.tags # {}

\* the outcome (element_type, confidence) of the cascade
Verdict(element_type, confidence) ==
    [element_type |-> element_type, confidence |-> confidence]

\* lines 239-288: the first predicate that holds decides
_apply_classification_rules(scale, entity_type, layer, layer_classification, geometry, layer_context) ==
    LET score(base) == _confidence_from_context(layer_context, base)
        mep_type == _is_mep_component(entity_type, layer, geometry, layer_context)
    IN  IF _is_wall(scale, entity_type, layer, layer_classification, geometry, layer_context)
        THEN Verdict("wall", score(850))
        ELSE IF _is_door(scale, entity_type, layer, layer_classification, geometry, layer_context)
        THEN Verdict("door", score(800))
        ELSE IF _is_window(scale, entity_type, layer, layer_classification, geometry, layer_context)
        THEN Verdict("window", score(780))
        ELSE IF _is_floor(scale, entity_type, layer, layer_classification, geometry, layer_context)
        THEN Verdict("floor", score(750))
        ELSE IF _is_ceiling(scale, entity_type, layer, layer_classification, geometry, layer_context)
        THEN Verdict("ceiling", score(700))
        ELSE IF _is_space(scale, entity_type, layer, layer_classification, geometry, layer_context)
        THEN Verdict("space", score(680))
        ELSE IF _is_column(scale, entity_type, layer, layer_classification, geometry, layer_context)
        THEN Verdict("column", score(800))
        ELSE IF _is_beam(scale, entity_type, layer, layer_classification, geometry, layer_context)
        THEN Verdict("beam", score(780))
        ELSE IF _is_stair(scale, entity_type, layer, layer_classification, geometry, layer_context)
        THEN Verdict("stair", score(650))
        ELSE IF mep_type # "None" THEN Verdict(mep_type, score(700))
        ELSE IF _is_furniture(entity_type, layer, geometry, layer_context)
        THEN Verdict("furniture", score(650))
        ELSE IF _is_fixture(entity_type, layer, geometry, layer_context)
        THEN Verdict("fixture", score(620))
        ELSE Verdict("None", 0)

\* ArchitecturalElement, of its fields those read downstream
ArchitecturalElement(element_type, layer, geometry, properties, classification_confidence) ==
    [element_type |-> element_type, layer |-> layer, geometry |-> geometry,
     properties |-> properties, classification_confidence |-> classification_confidence]

\* layers.get(layer_name, {}) or {}
LayerInfoOf(layer) ==
    IF layer \in DOMAIN layers THEN layers[layer] ELSE <<>>

\* the cascade applied to an entity, as _analyze_entity calls it
Classify(scale, e) ==
    LET info == LayerInfoOf(e.layer)
    IN _apply_classification_rules(scale, e.type, e.layer,
           Get(info, "classification", "other"),
           _calculate_geometry_properties(e.type, e.geometry),
           _build_layer_context(info))

\* lines 95, 104-113: the entity's properties and, when the layer table
\* lists the layer, the layer metadata
EntityMetadata(e) ==
    LET info == LayerInfoOf(e.layer)
    IN  IF e.layer \in DOMAIN layers
        THEN [layer_metadata |->
                 [classification |-> Get(info, "classification", "other"),
                  source |-> Get(info, "classification_source", "unknown")]]
             @@ e.properties
        ELSE e.properties

\* _analyze_entity with a plausible fault: the verdict is not filtered
_analyze_entity_unfiltered(scale, e) ==
    LET v == Classify(scale, e)
    IN ArchitecturalElement(v.element_type, e.layer,
           _calculate_geometry_properties(e.type, e.geometry),
           EntityMetadata(e), v.confidence)

\* lines 90-134
_analyze_entity(scale, e) ==
    LET v == Classify(scale, e)
    IN  IF v.element_type # "None" /\ v.confidence > 300
        THEN ArchitecturalElement(v.element_type, e.layer,
                 _calculate_geometry_properties(e.type, e.geometry),
                 EntityMetadata(e), v.confidence)
        ELSE None

(***************************************************************************)
(* backend/dxf_parser.py : what parse_dxf hands to the extractor besides   *)
(* the entities and the layer table                                        *)
(***************************************************************************)

\* lines 879-904
_get_units_name(units_code) ==
    LET units_map ==
            <<"Unitless", "Inches", "Feet", "Miles", "Millimeters", "Centimeters",
              "Meters", "Kilometers", "Microinches", "Mils", "Yards", "Angstroms",
              "Nanometers", "Microns", "Decimeters", "Decameters", "Hectometers",
              "Gigameters", "Astronomical units", "Light years", "Parsecs">>
    IN IF units_code \in 0..20 THEN units_map[units_code + 1] ELSE "Unknown"

\* lines 867-877, of the header the two keys the extractor reads
_get_file_info(insunits) ==
    [units |-> insunits, units_name |-> _get_units_name(insunits)]

\* the 2D points of an entity's geometry that _calculate_bounds looks at
BoundPoints(geom) ==
    IF "start" \in DOMAIN geom /\ "end" \in DOMAIN geom THEN {geom.start, geom.end}
    ELSE IF "center" \in DOMAIN geom /\ "radius" \in DOMAIN geom
    THEN {<<geom.center[1] - geom.radius, geom.center[2] - geom.radius>>,
          <<geom.center[1] + geom.radius, geom.center[2] + geom.radius>>}
    ELSE IF "points" \in DOMAIN geom THEN Range(geom.points)
    ELSE IF "insert_point" \in DOMAIN geom THEN {geom.insert_point}
    ELSE {}

SetMin(S) == CHOOSE x \in S : \A y \in S : x <= y
SetMax(S) == CHOOSE x \in S : \A y \in S : x >= y

\* lines 758-807 (x and y; z is not read downstream)
_calculate_bounds(entities, bounds) ==
    LET pts == UNION {BoundPoints(entities[i].geometry) : i \in 1..Len(entities)}
    IN  IF entities = <<>> THEN bounds
        ELSE IF pts = {} THEN [min |-> <<0, 0>>, max |-> <<0, 0>>]
        ELSE [min |-> <<SetMin({p[1] : p \in pts}), SetMin({p[2] : p \in pts})>>,
              max |-> <<SetMax({p[1] : p \in pts}), SetMax({p[2] : p \in pts})>>]

\* parse_dxf lines 261-269: the keys extract_architectural_elements reads
ParsedDxf(insunits, entities, bounds) ==
    [success |-> TRUE,
     file_info |-> _get_file_info(insunits),
     entities |-> entities,
     bounds |-> _calculate_bounds(entities, bounds)]

\* parse_dxf lines 274-285: the dict returned when reading the file raised
FailedParse(bounds) ==
    [success |-> FALSE, file_info |-> <<>>, entities |-> <<>>, bounds |-> bounds]

(***************************************************************************)
(* backend/geometry_extractor.py : units, topology and the stage itself    *)
(***************************************************************************)

\* str.lower() on ASCII
LowerChar(c) ==
    IF \E i \in 1..26 : SubSeq(UpperCase, i, i) = c
    THEN LET i == CHOOSE i \in 1..26 : SubSeq(UpperCase, i, i) = c
         IN SubSeq(LowerCase, i, i)
    ELSE c

RECURSIVE lower(_)
lower(s) ==
    IF s = "" THEN ""
    ELSE LowerChar(SubSeq(s, 1, 1)) \o lower(SubSeq(s, 2, Len(s)))

Abs(x) == IF x < 0 THEN -x ELSE x

\* lines 490-526: metres per drawing unit, as a fraction.  Extents are
\* integers, so `0.5 < max_dim` reads max_dim >= 1.
_infer_units_and_thresholds(file_info, bounds) ==
    LET units_name == lower(Get(file_info, "units_name", ""))
        units_code == Get(file_info, "units", 0)
        code_map == [c \in {1, 2, 4, 5, 6, 7} |->
                        CASE c = 1 -> <<254, 10000>>
                          [] c = 2 -> <<3048, 10000>>
                          [] c = 4 -> <<1, 1000>>
                          [] c = 5 -> <<1, 100>>
                          [] c = 6 -> <<1, 1>>
                          [] c = 7 -> <<1000, 1>>]
        name_map == [n \in {"inches", "feet", "millimeters", "centimeters",
                            "meters", "kilometers"} |->
                        CASE n = "inches" -> <<254, 10000>>
                          [] n = "feet" -> <<3048, 10000>>
                          [] n = "millimeters" -> <<1, 1000>>
                          [] n = "centimeters" -> <<1, 100>>
                          [] n = "meters" -> <<1, 1>>
                          [] n = "kilometers" -> <<1000, 1>>]
        max_dim == Max2(Abs(bounds.max[1] - bounds.min[1]),
                        Abs(bounds.max[2] - bounds.min[2]))
    IN  IF units_name \in DOMAIN name_map THEN name_map[units_name]
        ELSE IF units_code \in DOMAIN code_map THEN code_map[units_code]
        ELSE IF 1000 < max_dim /\ max_dim < 100000 THEN <<1, 1000>>
        ELSE IF 50 < max_dim /\ max_dim < 1000 THEN <<1, 100>>
        ELSE IF max_dim >= 1 /\ max_dim < 200 THEN <<1, 1>>
        ELSE <<1, 1000>>

\* ifc_generator.py lines 1023-1055: metres per drawing unit as the graph
\* builder reads it from the same file_info, as a fraction
_infer_unit_scale(file_info) ==
    LET units_name == lower(Get(file_info, "units_name", ""))
        units_code == Get(file_info, "units", None)
        name_map == [n \in {"inch", "inches", "foot", "feet", "meter", "meters",
                            "metre", "millimeter", "millimeters", "millimetre",
                            "centimeter", "centimeters"} |->
                        CASE n \in {"inch", "inches"} -> <<254, 10000>>
                          [] n \in {"foot", "feet"} -> <<3048, 10000>>
                          [] n \in {"meter", "meters", "metre"} -> <<1, 1>>
                          [] n \in {"millimeter", "millimeters", "millimetre"} -> <<1, 1000>>
                          [] n \in {"centimeter", "centimeters"} -> <<1, 100>>]
        code_map == [c \in 0..7 |->
                        CASE c = 0 -> <<1, 1>>
                          [] c = 1 -> <<254, 10000>>
                          [] c = 2 -> <<3048, 10000>>
                          [] c = 3 -> <<160934, 100>>
                          [] c = 4 -> <<1, 1000>>
                          [] c = 5 -> <<1, 100>>
                          [] c = 6 -> <<1, 1>>
                          [] c = 7 -> <<1000, 1>>]
    IN  IF units_name \in DOMAIN name_map THEN name_map[units_name]
        ELSE IF units_code \in DOMAIN code_map THEN code_map[units_code]
        ELSE <<1, 1000>>

\* the members, in increasing order, of a set of integers
RECURSIVE Ascending(_)
Ascending(S) ==
    IF S = {} THEN <<>> ELSE <<SetMin(S)>> \o Ascending(S \ {SetMin(S)})

\* An axis-parallel rectangle <<x1, y1, x2, y2>>.  Polygons are kept as sets
\* of such rectangles and wall lines as sequences of points joined by
\* axis-parallel segments: the drawings below hold no oblique wall.
Rect(x1, y1, x2, y2) == <<x1, y1, x2, y2>>
RectArea(r) == (r[3] - r[1]) * (r[4] - r[2])

\* polygon.area of a polygon kept as non-overlapping rectangles
RECURSIVE PolygonArea(_)
PolygonArea(rects) ==
    IF rects = {} THEN 0
    ELSE LET r == CHOOSE r \in rects : TRUE
         IN RectArea(r) + PolygonArea(rects \ {r})

\* lines 888-902: the point sequence of the LineString, <<>> for None
_line_from_geometry(geometry) ==
    LET points == Get(geometry, "points", <<>>)
    IN  IF Len(points) < 2 THEN <<>>
        ELSE IF \A i \in 1..Len(points) : points[i] = points[1] THEN <<>>
        ELSE points

\* the axis-parallel segments of a line, each as a flat rectangle
SegmentsOf(line) ==
    {Rect(Min2(line[i][1], line[i + 1][1]), Min2(line[i][2], line[i + 1][2]),
          Max2(line[i][1], line[i + 1][1]), Max2(line[i][2], line[i + 1][2])) :
        i \in 1..(Len(line) - 1)}

\* consecutive values of a finite set of integers
Consecutive(S) ==
    {<<a, b>> \in S \X S : a < b /\ ~\E c \in S : a < c /\ c < b}

\* shapely unary_union + polygonize on axis-parallel segments: the plane is
\* cut along every coordinate that occurs; two neighbouring cells belong to
\* the same face unless a segment covers the edge between them; the faces
\* are the groups of cells that the outside does not reach.
RECURSIVE Flood(_, _, _)
Flood(cells, segs, reached) ==
    LET open(c, d) ==
            \/ /\ c[3] = d[1] /\ c[2] = d[2] /\ c[4] = d[4]
               /\ ~\E s \in segs : s[1] = c[3] /\ s[3] = c[3]
                                     /\ s[2] <= c[2] /\ s[4] >= c[4]
            \/ /\ c[4] = d[2] /\ c[1] = d[1] /\ c[3] = d[3]
               /\ ~\E s \in segs : s[2] = c[4] /\ s[4] = c[4]
                                     /\ s[1] <= c[1] /\ s[3] >= c[3]
        more == {c \in cells \ reached :
                    \E d \in reached : open(c, d) \/ open(d, c)}
    IN IF more = {} THEN reached ELSE Flood(cells, segs, reached \cup more)

polygonize(wall_lines) ==
    LET segs == UNION {SegmentsOf(wall_lines[i]) : i \in 1..Len(wall_lines)}
        xs0 == {s[1] : s \in segs} \cup {s[3] : s \in segs}
        ys0 == {s[2] : s \in segs} \cup {s[4] : s \in segs}
        xs == xs0 \cup {SetMin(xs0) - 1, SetMax(xs0) + 1}
        ys == ys0 \cup {SetMin(ys0) - 1, SetMax(ys0) + 1}
        cells == {Rect(x[1], y[1], x[2], y[2]) :
                     x \in Consecutive(xs), y \in Consecutive(ys)}
        rim == {c \in cells : \/ c[1] < SetMin(xs0) \/ c[3] > SetMax(xs0)
                              \/ c[2] < SetMin(ys0) \/ c[4] > SetMax(ys0)}
        outside == Flood(cells, segs, rim)
    IN  IF segs = {} THEN {}
        ELSE {Flood(cells \ outside, segs, {c}) : c \in cells \ outside}

\* lines 831-852: the space generated from the idx-th face
GeneratedSpace(idx, face) ==
    ArchitecturalElement("space", "__generated_space__",
        [type |-> "POLYGON", closed |-> TRUE, rects |-> face,
         area |-> PolygonArea(face)],
        [name |-> <<"Generated Space", idx>>, generated |-> TRUE], 450)

\* the wall lines collected at lines 804-810
WallLines(elems) ==
    LET idx == {i \in 1..Len(elems) :
                   /\ elems[i].element_type = "wall"
                   /\ _line_from_geometry(elems[i].geometry) # <<>>}
        RECURSIVE collect(_)
        collect(i) ==
            IF i > Len(elems) THEN <<>>
            ELSE (IF i \in idx THEN <<_line_from_geometry(elems[i].geometry)>> ELSE <<>>)
                     \o collect(i + 1)
    IN collect(1)

\* lines 795-858.  `order` is the order in which polygonize yields the faces
\* that pass the area filter: area >= 2.0 / scale_to_m ** 2.
_ensure_spaces_from_walls(scale, elems, order) ==
    LET has_space == \E i \in 1..Len(elems) :
                         elems[i].element_type \in {"space", "room", "floor"}
        wall_lines == WallLines(elems)
        kept == Ascending({idx \in 1..Len(order) :
                    PolygonArea(order[idx]) * scale[1] * scale[1]
                        >= 2 * scale[2] * scale[2]})
    IN  IF has_space \/ Len(wall_lines) < 3 THEN <<>>
        ELSE [k \in 1..Len(kept) |-> GeneratedSpace(kept[k], order[kept[k]])]

\* the orders in which a finite set can be enumerated
Orders(S) ==
    {o \in [1..Cardinality(S) -> S] : \A i, j \in 1..Cardinality(S) : o[i] = o[j] => i = j}

\* the faces polygonize finds in the wall lines of the element list
FacesOf(elems) == polygonize(WallLines(elems))

\* lines 868-886: the polygon of a space, as rectangles; {} for None
_polygon_from_geometry(geometry) ==
    IF "rects" \in DOMAIN geometry THEN geometry.rects
    ELSE LET points == Get(geometry, "points", <<>>)
             xs == {points[i][1] : i \in 1..Len(points)}
             ys == {points[i][2] : i \in 1..Len(points)}
         IN  IF Len(points) < 3 THEN {}
             ELSE IF SetMin(xs) = SetMax(xs) \/ SetMin(ys) = SetMax(ys) THEN {}
             ELSE {Rect(SetMin(xs), SetMin(ys), SetMax(xs), SetMax(ys))}

\* squared distance between two rectangles, between two sets of rectangles
RectDist2(a, b) ==
    LET dx == Max2(0, Max2(a[1] - b[3], b[1] - a[3]))
        dy == Max2(0, Max2(a[2] - b[4], b[2] - a[4]))
    IN dx * dx + dy * dy

Dist2(A, B) == SetMin({RectDist2(a, b) : a \in A, b \in B})

\* lines 747-750: polygon.buffer(tolerance).intersects(line), the tolerance
\* being 0.1 / scale_to_m drawing units (lines 860-866)
TouchesWall(scale, polygon, line) ==
    100 * Dist2(polygon, SegmentsOf(line)) * scale[1] * scale[1] <= scale[2] * scale[2]

\* line 775: the two polygons, each buffered by the tolerance, intersect
TouchesSpace(scale, polygon_i, polygon_j) ==
    25 * Dist2(polygon_i, polygon_j) * scale[1] * scale[1] <= scale[2] * scale[2]

\* adjacency recorded on the first space of each pair only
AdjacentSpacesForwardOnly(scale, elems, space_records, p) ==
    Ascending({q - 1 : q \in {q \in space_records : q > p /\
        TouchesSpace(scale, _polygon_from_geometry(elems[p].geometry),
                            _polygon_from_geometry(elems[q].geometry))}})

\* lines 769-782: the adjacent_spaces list of the space at position p; the
\* pair (i, j), i < j, is tested once and recorded on both records
AdjacentSpaces(scale, elems, space_records, p) ==
    Ascending({q - 1 : q \in {q \in space_records \ {p} :
        TouchesSpace(scale, _polygon_from_geometry(elems[Min2(p, q)].geometry),
                            _polygon_from_geometry(elems[Max2(p, q)].geometry))}})

\* lines 700-793: element indices count from 0
_compute_relationships(scale, elems) ==
    LET wall_records == {i \in 1..Len(elems) :
                            /\ elems[i].element_type \in {"wall", "partition"}
                            /\ _line_from_geometry(elems[i].geometry) # <<>>}
        space_records == {i \in 1..Len(elems) :
                             /\ elems[i].element_type \in {"space", "room", "floor"}
                             /\ _polygon_from_geometry(elems[i].geometry) # {}}
        info(p) ==
            [element_index |-> p - 1,
             type |-> elems[p].element_type,
             generated |-> (Get(elems[p].properties, "generated", FALSE)
                             \/ elems[p].layer = "__generated_space__"),
             area_raw |-> Get(elems[p].properties, "area", "None"),
             adjacent_walls |->
                 Ascending({w - 1 : w \in {w \in wall_records :
                     TouchesWall(scale, _polygon_from_geometry(elems[p].geometry),
                                 _line_from_geometry(elems[w].geometry))}}),
             adjacent_spaces |-> AdjacentSpaces(scale, elems, space_records, p)]
        order == Ascending(space_records)
    IN [spaces |-> [k \in 1..Len(order) |-> info(order[k])],
        walls |-> Cardinality(wall_records)]

\* lines 909-942.  Lengths are kept squared (length2, width2).
_calculate_element_properties(el) ==
    LET geometry == el.geometry
        standard == [element_type |-> el.element_type, layer |-> el.layer,
                     confidence |-> el.classification_confidence] @@ el.properties
        area == IF "area" \in DOMAIN geometry THEN [area |-> geometry.area] @@ standard
                ELSE standard
        props ==
            IF el.element_type = "wall"
            THEN (IF "length2" \in DOMAIN geometry
                  THEN [length2 |-> geometry.length2] @@ area ELSE area)
            ELSE IF el.element_type = "door"
            THEN (IF "radius" \in DOMAIN geometry
                  THEN [width |-> geometry.radius * 2] @@ standard
                  ELSE IF "length2" \in DOMAIN geometry
                  THEN [width2 |-> geometry.length2] @@ standard
                  ELSE [width |-> 900] @@ standard)
            ELSE IF el.element_type = "window"
            THEN (IF "length2" \in DOMAIN geometry
                  THEN [width2 |-> geometry.length2] @@ standard
                  ELSE [width |-> 1200] @@ standard)
            ELSE IF el.element_type \in {"floor", "space"} THEN area
            ELSE standard
    IN [el EXCEPT !.properties = props]

\* lines 687-698
_post_process_elements(scale, elems, order) ==
    LET calculated == [i \in 1..Len(elems) |-> _calculate_element_properties(elems[i])]
        generated == _ensure_spaces_from_walls(scale, calculated, order)
    IN calculated \o [i \in 1..Len(generated) |-> _calculate_element_properties(generated[i])]

\* lines 990-998
_element_to_dict(el) ==
    [type |-> el.element_type, layer |-> el.layer, geometry |-> el.geometry,
     properties |-> el.properties, confidence |-> el.classification_confidence]

(***************************************************************************)
(* Drawings: the header unit ($INSUNITS) and the modelspace entities, as   *)
(* DXFParser._extract_entity_data describes them.  A corrupt entity is one *)
(* for which _extract_entity_data raises.                                  *)
(***************************************************************************)
MaxEntities == 2    \* entities of a drawing put together from the pool

\* _extract_properties, lines 554-579: LINE, ARC, CIRCLE and polylines carry
\* a thickness
EntityProperties == [thickness |-> 0]

Segment(layer, a, b) ==
    [type |-> "LINE", layer |-> layer,
     geometry |-> [type |-> "LINE", start |-> a, end |-> b],
     properties |-> EntityProperties]
Line(layer, len) == Segment(layer, <<0, 0>>, <<len, 0>>)
Arc(layer, r) ==
    [type |-> "ARC", layer |-> layer,
     geometry |-> [type |-> "ARC", center |-> <<0, 0>>, radius |-> r],
     properties |-> EntityProperties]
Circle(layer, r) ==
    [type |-> "CIRCLE", layer |-> layer,
     geometry |-> [type |-> "CIRCLE", center |-> <<0, 0>>, radius |-> r],
     properties |-> EntityProperties]
\* a closed rectangular LWPOLYLINE; _calculate_polyline_area (lines 721-735)
\* appends the first point to the point list of a closed polyline
Polyline(layer, x1, y1, x2, y2) ==
    [type |-> "LWPOLYLINE", layer |-> layer,
     geometry |-> [type |-> "LWPOLYLINE", closed |-> TRUE,
                   points |-> <<<<x1, y1>>, <<x2, y1>>, <<x2, y2>>, <<x1, y2>>, <<x1, y1>>>>,
                   area |-> (x2 - x1) * (y2 - y1)],
     properties |-> EntityProperties]
CorruptEntity == [type |-> "LINE", layer |-> "0", corrupt |-> TRUE]

\* a long line (3 m at 0.001 m per unit), a short one (0.1 m), a door swing
\* (0.9 m) and a column section (0.2 m) on each of three layers, a short
\* line on a layer that the layer table does not list, and a corrupt entity
Entities ==
    UNION {{Line(l, 3000), Line(l, 100), Arc(l, 900), Circle(l, 200)} :
              l \in {"A-WALL-EXIST", "M-HVAC", "0"}}
        \cup {Line("GHOST", 100), CorruptEntity}

\* the four sides of a rectangle as wall lines
Sides(layer, x1, y1, x2, y2) ==
    <<Segment(layer, <<x1, y1>>, <<x2, y1>>), Segment(layer, <<x2, y1>>, <<x2, y2>>),
      Segment(layer, <<x2, y2>>, <<x1, y2>>), Segment(layer, <<x1, y2>>, <<x1, y1>>)>>

\* header units: unitless, millimetres, centimetres, metres, decimetres
Unitless == 0
Millimeters == 4
Centimeters == 5
Meters == 6
Decimeters == 14

Drawing(insunits, msp) == [insunits |-> insunits, msp |-> msp]

\* single entities at the edges of the geometry tests, on the unclassified
\* layer "0" in millimetres and in metres
EdgeDrawings ==
    {Drawing(Millimeters, <<e>>) :
        e \in {Arc("0", 399), Arc("0", 400), Arc("0", 600), Arc("0", 1300), Arc("0", 1301),
               Line("0", 500), Line("0", 501), Line("0", 4001),
               Polyline("0", 0, 0, 1000, 1000), Polyline("0", 0, 0, 2000, 2000),
               Polyline("A-ROOM", 0, 0, 2000, 2000)}}
      \cup {Drawing(Millimeters, <<Line("M-HVAC-DRAIN", 100)>>),
            Drawing(Millimeters, <<Arc("A-WALL-EXIST", 900), Line("M-HVAC-DRAIN", 3000)>>)}
      \cup {Drawing(Meters, <<e>>) :
        e \in {Arc("0", 1), Line("0", 1), Line("0", 3),
               Polyline("0", 0, 0, 1, 1), Polyline("0", 0, 0, 2, 2)}}
      \cup {Drawing(Centimeters, <<e>>) :
        e \in {Arc("0", 60), Line("0", 300), Polyline("0", 0, 0, 100, 100)}}
      \cup {Drawing(u, <<e>>) :
        u \in {Unitless, Decimeters},
        e \in {Line("0", 30), Line("0", 300), Line("0", 3000), Arc("0", 6), Arc("0", 600),
               Line("0", 49), Line("0", 50), Line("0", 51), Line("0", 200),
               Line("0", 1000), Line("0", 1001)}}

\* wall loops, in millimetres unless the header says otherwise
WallDrawings ==
    {\* one room of exactly 2 m2, one of 1 m2
     Drawing(Millimeters, Sides("A-WALL-EXIST", 0, 0, 2000, 1000)),
     Drawing(Millimeters, Sides("A-WALL-EXIST", 0, 0, 1000, 1000)),
     \* the same 2 m2 room on the unclassified layer, and drawn in metres
     Drawing(Millimeters, Sides("0", 0, 0, 2000, 1000)),
     Drawing(Meters, Sides("0", 0, 0, 2, 1)),
     \* two rooms of 4 m2 that share a wall
     Drawing(Millimeters, Sides("A-WALL-EXIST", 0, 0, 4000, 2000)
                 \o <<Segment("A-WALL-EXIST", <<2000, 0>>, <<2000, 2000>>)>>),
     \* a room of 4 m2 next to a closet of 1 m2
     Drawing(Millimeters, Sides("A-WALL-EXIST", 0, 0, 3000, 2000)
                 \o <<Segment("A-WALL-EXIST", <<2000, 0>>, <<2000, 1000>>),
                      Segment("A-WALL-EXIST", <<2000, 1000>>, <<3000, 1000>>)>>),
     \* two rooms of 2 m2, 150 mm apart
     Drawing(Millimeters, Sides("A-WALL-EXIST", 0, 0, 2000, 1000)
                 \o Sides("A-WALL-EXIST", 2150, 0, 4150, 1000)),
     \* a wall 50 mm off a room of 2 m2, drawn before the walls of the room
     Drawing(Millimeters, <<Segment("A-WALL-EXIST", <<2050, 0>>, <<2050, 1000>>)>>
                 \o Sides("A-WALL-EXIST", 0, 0, 2000, 1000)),
     \* three walls that close no loop
     Drawing(Millimeters, SubSeq(Sides("A-WALL-EXIST", 0, 0, 2000, 2000), 1, 3)),
     \* wall outlines drawn as closed polylines: one, two, and three of
     \* them, 150 mm and 1000 mm apart
     Drawing(Millimeters, <<Polyline("A-WALL-EXIST", 0, 0, 2000, 2000)>>),
     Drawing(Millimeters, <<Polyline("A-WALL-EXIST", 0, 0, 2000, 2000),
                            Polyline("A-WALL-EXIST", 2150, 0, 4150, 2000)>>),
     Drawing(Millimeters, <<Polyline("A-WALL-EXIST", 0, 0, 2000, 2000),
                            Polyline("A-WALL-EXIST", 2150, 0, 4150, 2000),
                            Polyline("A-WALL-EXIST", 5150, 0, 7150, 2000)>>),
     \* room outlines and walls in metres: the rooms are explicit
     Drawing(Meters, Sides("0", 0, 0, 4, 2)
                 \o <<Polyline("A-ROOM", 0, 0, 2, 2), Polyline("A-ROOM", 2, 0, 4, 2)>>),
     Drawing(Meters, <<Polyline("A-ROOM", 0, 0, 2, 2), Polyline("A-ROOM", 3, 0, 5, 2),
                       Polyline("0", 5, 0, 7, 2)>>)}

Drawings ==
    {Drawing(u, msp) : u \in {Millimeters, Meters}, msp \in SeqsUpTo(Entities, MaxEntities)}
        \cup EdgeDrawings \cup WallDrawings

\* dxf_parser.py lines 349-373: the entities of the modelspace for which
\* _extract_entity_data does not raise, in order
RECURSIVE _extract_entities(_)
_extract_entities(msp) ==
    IF msp = <<>> THEN <<>>
    ELSE (IF "corrupt" \in DOMAIN Head(msp) THEN <<>> ELSE <<Head(msp)>>)
             \o _extract_entities(Tail(msp))

InitExtract ==
    /\ InitIfc
    /\ layer_name = ""
    /\ layer_info = None
    /\ probed = <<>>
    /\ entity = None
    /\ element = None
    /\ extracted = <<>>
    /\ analysed = 0
    /\ scale_to_m = <<1, 1000>>
    /\ doc \in Drawings
    /\ parsed_dxf = None
    /\ result = None
    /\ invocation = <<>>
    /\ self_bounds = ZeroBounds
    /\ epc = "parse"

\* DXFParser.parse_dxf, lines 246-272
ParseDxf ==
    /\ epc = "parse"
    /\ parsed_dxf' = ParsedDxf(doc.insunits, _extract_entities(doc.msp), self_bounds)
    /\ self_bounds' = parsed_dxf'.bounds
    /\ epc' = "units"
    /\ UNCHANGED <<ifcVars, layerVars, invocation, entity, element, scale_to_m, extracted,
                   analysed, doc, result>>

\* extract_architectural_elements lines 48-52
InferUnits ==
    /\ epc = "units"
    /\ extracted' = <<>>
    /\ scale_to_m' = _infer_units_and_thresholds(parsed_dxf.file_info, parsed_dxf.bounds)
    /\ epc' = "entities"
    /\ UNCHANGED <<ifcVars, layerVars, invocation, self_bounds, entity, element, analysed, doc,
                   parsed_dxf, result>>

\* extract_architectural_elements lines 55-58: one turn of the entity loop
AnalyzeEntity ==
    /\ epc = "entities"
    /\ analysed < Len(parsed_dxf.entities)
    /\ entity' = parsed_dxf.entities[analysed + 1]
    /\ element' = _analyze_entity(scale_to_m, entity')
    /\ extracted' = IF element' # None THEN Append(extracted, element') ELSE extracted
    /\ analysed' = analysed + 1
    /\ UNCHANGED <<ifcVars, layerVars, invocation, self_bounds, epc, scale_to_m, doc, parsed_dxf, result>>

\* the value returned at lines 82-88
ExtractionFailed ==
    [success |-> FALSE, elements |-> <<>>, relationships |-> None]

\* lines 55-56 and 80-88: _analyze_entity raises on the entity at hand; no
\* handler stands between the loop body and the handler of the whole stage
AnalyzeEntityRaises ==
    /\ epc = "entities"
    /\ analysed < Len(parsed_dxf.entities)
    /\ entity' = parsed_dxf.entities[analysed + 1]
    /\ element' = None
    /\ result' = ExtractionFailed
    /\ epc' = "failed"
    /\ UNCHANGED <<ifcVars, layerVars, invocation, self_bounds, scale_to_m, extracted, analysed, doc,
                   parsed_dxf>>

\* extract_architectural_elements line 61: _post_process_elements
PostProcess ==
    /\ epc = "entities"
    /\ analysed = Len(parsed_dxf.entities)
    /\ \E order \in Orders(FacesOf(extracted)) :
          extracted' = _post_process_elements(scale_to_m, extracted, order)
    /\ epc' = "post"
    /\ UNCHANGED <<ifcVars, layerVars, invocation, self_bounds, entity, element, analysed, scale_to_m,
                   doc, parsed_dxf, result>>

\* extract_architectural_elements lines 63-78
ReturnElements ==
    /\ epc = "post"
    /\ result' = [success |-> TRUE,
                  elements |-> [i \in 1..Len(extracted) |-> _element_to_dict(extracted[i])],
                  relationships |-> _compute_relationships(scale_to_m, extracted)]
    /\ epc' = "done"
    /\ UNCHANGED <<ifcVars, layerVars, invocation, self_bounds, entity, element, analysed, scale_to_m,
                   extracted, doc, parsed_dxf>>

NextExtract ==
    \/ ParseDxf
    \/ InferUnits
    \/ AnalyzeEntity
    \/ AnalyzeEntityRaises
    \/ PostProcess
    \/ ReturnElements

SpecExtract == InitExtract /\ [][NextExtract]_vars

(***************************************************************************)
(* backend/robust_processor.py : two process_dxf_file calls on one         *)
(* RobustProcessor.  _ensure_dxf_pipeline (lines 267-271) creates one      *)
(* GeometryExtractor, so both calls run extract_architectural_elements on  *)
(* the same self.elements and self.scale_to_m; what is local to a call is  *)
(* the parsed drawing, the position in the entity loop and the value       *)
(* returned.  A step is one statement of extract_architectural_elements;   *)
(* the calls take their steps in any order.                                *)
(***************************************************************************)
Invocations == {"first", "second"}

\* a file ezdxf.readfile raises on
Unreadable == [unreadable |-> TRUE]

\* a wall line with a door swing in millimetres, a wall line in metres, a
\* room of 2 m2 in millimetres, a drawing with an empty modelspace and a
\* file that cannot be read
OverlapDrawings ==
    {Drawing(Millimeters, <<Line("A-WALL-EXIST", 3000), Arc("0", 900)>>),
     Drawing(Meters, <<Line("0", 3)>>),
     Drawing(Millimeters, Sides("A-WALL-EXIST", 0, 0, 2000, 1000)),
     Drawing(Millimeters, <<>>),
     Unreadable}

\* robust_processor.py line 273: a call and the file it is given
Invocation(drawing) ==
    [at |-> "parse", doc |-> drawing, parsed_dxf |-> None, analysed |-> 0,
     result |-> None]

InitOverlap ==
    /\ InitIfc
    /\ layer_name = ""
    /\ layer_info = None
    /\ probed = <<>>
    /\ entity = None
    /\ element = None
    /\ scale_to_m = <<1, 1000>>
    /\ extracted = <<>>
    /\ analysed = 0
    /\ epc = "idle"
    /\ doc = None
    /\ parsed_dxf = None
    /\ result = None
    /\ invocation \in [Invocations -> {Invocation(d) : d \in OverlapDrawings}]
    /\ self_bounds = ZeroBounds

overlapFrame == <<ifcVars, layerVars, entity, element, analysed, epc, doc,
                  parsed_dxf, result>>

\* robust_processor.py line 280: parse_dxf returns the parsed drawing
ParseDxfOf(i) ==
    /\ invocation[i].at = "parse"
    /\ "unreadable" \notin DOMAIN invocation[i].doc
    /\ invocation' = [invocation EXCEPT
           ![i].parsed_dxf = ParsedDxf(invocation[i].doc.insunits,
                                       _extract_entities(invocation[i].doc.msp),
                                       self_bounds),
           ![i].at = "reset"]
    /\ self_bounds' = invocation'[i].parsed_dxf.bounds
    /\ UNCHANGED <<overlapFrame, scale_to_m, extracted>>

\* dxf_parser.py lines 274-285 and robust_processor.py lines 283-288:
\* ezdxf.readfile raises, parse_dxf returns its failure dict and the call
\* returns an error
ParseDxfRaisesOf(i) ==
    /\ invocation[i].at = "parse"
    /\ "unreadable" \in DOMAIN invocation[i].doc
    /\ invocation' = [invocation EXCEPT
           ![i].parsed_dxf = FailedParse(self_bounds),
           ![i].result = [success |-> FALSE],
           ![i].at = "done"]
    /\ UNCHANGED <<overlapFrame, self_bounds, scale_to_m, extracted>>

\* geometry_extractor.py line 48: self.elements = []
ResetElementsOf(i) ==
    /\ invocation[i].at = "reset"
    /\ extracted' = <<>>
    /\ invocation' = [invocation EXCEPT ![i].at = "units"]
    /\ UNCHANGED <<overlapFrame, self_bounds, scale_to_m>>

\* geometry_extractor.py line 52: self.scale_to_m is set from the drawing
InferUnitsOf(i) ==
    /\ invocation[i].at = "units"
    /\ scale_to_m' = _infer_units_and_thresholds(invocation[i].parsed_dxf.file_info,
                                                 invocation[i].parsed_dxf.bounds)
    /\ invocation' = [invocation EXCEPT ![i].at = "entities"]
    /\ UNCHANGED <<overlapFrame, self_bounds, extracted>>

\* geometry_extractor.py lines 55-58: one turn of the entity loop, reading
\* self.scale_to_m and appending to self.elements
AnalyzeEntityOf(i) ==
    /\ invocation[i].at = "entities"
    /\ invocation[i].analysed < Len(invocation[i].parsed_dxf.entities)
    /\ entity' = invocation[i].parsed_dxf.entities[invocation[i].analysed + 1]
    /\ element' = _analyze_entity(scale_to_m, entity')
    /\ extracted' = IF element' # None THEN Append(extracted, element') ELSE extracted
    /\ invocation' = [invocation EXCEPT ![i].analysed = @ + 1]
    /\ UNCHANGED <<ifcVars, layerVars, analysed, epc, doc, parsed_dxf, result,
                   scale_to_m, self_bounds>>

\* geometry_extractor.py line 61: _post_process_elements on self.elements
PostProcessOf(i) ==
    /\ invocation[i].at = "entities"
    /\ invocation[i].analysed = Len(invocation[i].parsed_dxf.entities)
    /\ \E order \in Orders(FacesOf(extracted)) :
          extracted' = _post_process_elements(scale_to_m, extracted, order)
    /\ invocation' = [invocation EXCEPT ![i].at = "post"]
    /\ UNCHANGED <<overlapFrame, self_bounds, scale_to_m>>

\* geometry_extractor.py lines 63-78: the result is built from self.elements
ReturnElementsOf(i) ==
    /\ invocation[i].at = "post"
    /\ invocation' = [invocation EXCEPT
           ![i].result =
               [success |-> TRUE,
                elements |-> [k \in 1..Len(extracted) |-> _element_to_dict(extracted[k])],
                relationships |-> _compute_relationships(scale_to_m, extracted)],
           ![i].at = "done"]
    /\ UNCHANGED <<overlapFrame, self_bounds, scale_to_m, extracted>>

NextOverlap ==
    \E i \in Invocations :
        \/ ParseDxfOf(i)
        \/ ParseDxfRaisesOf(i)
        \/ ResetElementsOf(i)
        \/ InferUnitsOf(i)
        \/ AnalyzeEntityOf(i)
        \/ PostProcessOf(i)
        \/ ReturnElementsOf(i)

SpecOverlap == InitOverlap /\ [][NextOverlap]_vars

(***************************************************************************)
(* Properties of the element classifier (specification SpecExtract)        *)
(***************************************************************************)

\* no predicate of the cascade holds for the entity
NoPredicate(scale, e) ==
    LET info == LayerInfoOf(e.layer)
        lc == Get(info, "classification", "other")
        g == _calculate_geometry_properties(e.type, e.geometry)
        ctx == _build_layer_context(info)
    IN /\ ~_is_wall(scale, e.type, e.layer, lc, g, ctx)
       /\ ~_is_door(scale, e.type, e.layer, lc, g, ctx)
       /\ ~_is_window(scale, e.type, e.layer, lc, g, ctx)
       /\ ~_is_floor(scale, e.type, e.layer, lc, g, ctx)
       /\ ~_is_ceiling(scale, e.type, e.layer, lc, g, ctx)
       /\ ~_is_space(scale, e.type, e.layer, lc, g, ctx)
       /\ ~_is_column(scale, e.type, e.layer, lc, g, ctx)
       /\ ~_is_beam(scale, e.type, e.layer, lc, g, ctx)
       /\ ~_is_stair(scale, e.type, e.layer, lc, g, ctx)
       /\ _is_mep_component(e.type, e.layer, g, ctx) = "None"
       /\ ~_is_furniture(e.type, e.layer, g, ctx)
       /\ ~_is_fixture(e.type, e.layer, g, ctx)

\* C8: every element of the extractor's output, classified from an entity
\* or synthesized, has confidence >= 0.3, and an entity for which no
\* predicate of the cascade holds produces no element.
C8_ConfidenceFloor ==
    /\ \A i \in 1..Len(extracted) : extracted[i].classification_confidence >= 300
    /\ (entity # None /\ NoPredicate(scale_to_m, entity)) =>
          /\ element = None
          /\ \A i \in 1..Len(extracted) : extracted[i].element_type # "None"

\* an output holding classified walls and a space synthesized from them
C8_Witness ==
    /\ epc = "done"
    /\ \E i \in 1..Len(extracted) : extracted[i].layer = "__generated_space__"
    /\ \E i \in 1..Len(extracted) : extracted[i].layer \in LayerTable

\* an entity that no predicate accepts has been analysed and dropped
C8_WitnessDropped ==
    /\ entity # None
    /\ NoPredicate(scale_to_m, entity)
    /\ element = None

\* the layer itself says wall: the layer tests of _is_wall
WallLayerSignal(layer) ==
    LET info == LayerInfoOf(layer)
        ctx == _build_layer_context(info)
    IN \/ ctx.classification \in {"wall", "structure_wall"}
       \/ "WALL" \in ctx.tags
       \/ "WALL" \in ctx.tokens
       \/ ctx.discipline = "architectural" /\ Contains(upper(layer), "WALL")

\* C9: the layer signal takes precedence over a coincidental geometry
\* match: an element on a layer that a rule classified into a category
\* other than wall is never of type wall.
C9_LayerBeatsGeometry ==
    \A i \in 1..Len(extracted) :
        LET info == LayerInfoOf(extracted[i].layer)
        IN (/\ extracted[i].element_type = "wall"
            /\ Get(info, "classification_source", "fallback") = "rule")
              => WallLayerSignal(extracted[i].layer)


\* the layer has no semantic classification: category other, confidence 0.0
Unclassified(layer) ==
    LET info == LayerInfoOf(layer)
    IN /\ Get(info, "classification", "other") = "other"
       /\ Get(info, "classification_confidence", 0) = 0

\* C11: an entity on an unclassified layer gets no layer bonus: a wall found
\* by geometry alone on such a layer has exactly the base confidence 0.85.
C11_GeometryAloneBase ==
    (/\ entity # None
     /\ element # None
     /\ Unclassified(entity.layer)
     /\ element.element_type = "wall")
        => element.classification_confidence = 850

\* C12: on a layer with no semantic classification every ARC whose radius in
\* metres lies in [0.4, 1.3] becomes a door and every LINE whose length in
\* metres exceeds 0.5 becomes a wall.
C12_GeometryDecides ==
    (entity # None /\ epc # "failed" /\ Unclassified(entity.layer)) =>
        LET sn == scale_to_m[1]
            sd == scale_to_m[2]
            g == entity.geometry
        IN /\ (/\ entity.type = "ARC"
               /\ 10 * g.radius * sn >= 4 * sd
               /\ 10 * g.radius * sn <= 13 * sd)
                  => (element # None /\ element.element_type = "door")
           /\ (/\ entity.type = "LINE"
               /\ 4 * ((g.end[1] - g.start[1]) * (g.end[1] - g.start[1])
                       + (g.end[2] - g.start[2]) * (g.end[2] - g.start[2])) * sn * sn
                     > sd * sd)
                  => (element # None /\ element.element_type = "wall")

\* a door swing of exactly 0.4 m on layer "0" has become a door
C12_Witness ==
    /\ entity # None
    /\ entity = Arc("0", 400)
    /\ scale_to_m = <<1, 1000>>
    /\ element # None
    /\ element.element_type = "door"

\* the generated spaces of the output, and the faces of at least 2 m2
GeneratedAt == {i \in 1..Len(extracted) : extracted[i].layer = "__generated_space__"}
LargeFaces ==
    {f \in FacesOf(extracted) :
        PolygonArea(f) * scale_to_m[1] * scale_to_m[1] >= 2 * scale_to_m[2] * scale_to_m[2]}

\* one generated space per face of at least 2 m2, none for any other face
SpacePerLargeFace ==
    /\ Cardinality(GeneratedAt) = Cardinality(LargeFaces)
    /\ \A f \in LargeFaces :
          \E i \in GeneratedAt :
              /\ extracted[i].element_type = "space"
              /\ extracted[i].geometry.rects = f
              /\ extracted[i].geometry.area = PolygonArea(f)
              /\ extracted[i].properties.generated
              /\ extracted[i].classification_confidence = 450

\* C13: after post-processing, when an element of type space, room or floor
\* was classified no space is generated; otherwise every closed face of the
\* wall lines of at least 2 m2 has exactly one generated space (generated,
\* confidence 0.45, layer __generated_space__, the area of the face) and no
\* other face has one.
C13_SpaceSynthesis ==
    epc \in {"post", "done"} =>
        IF \E i \in 1..Len(extracted) :
               /\ extracted[i].layer # "__generated_space__"
               /\ extracted[i].element_type \in {"space", "room", "floor"}
        THEN GeneratedAt = {}
        ELSE SpacePerLargeFace

\* C13 with the guard of the source: spaces are generated only from three
\* or more wall lines
C13_SpaceSynthesisFromThreeWalls ==
    epc \in {"post", "done"} =>
        IF \/ \E i \in 1..Len(extracted) :
                 /\ extracted[i].layer # "__generated_space__"
                 /\ extracted[i].element_type \in {"space", "room", "floor"}
           \/ Len(WallLines(extracted)) < 3
        THEN GeneratedAt = {}
        ELSE SpacePerLargeFace

\* four walls around 2 m2 have yielded exactly one generated space of 2 m2
C13_WitnessRectangle ==
    /\ epc = "done"
    /\ doc.msp = Sides("A-WALL-EXIST", 0, 0, 2000, 1000)
    /\ Cardinality(GeneratedAt) = 1
    /\ \A i \in GeneratedAt : extracted[i].geometry.area = 2000 * 1000

\* the space records of the relationships returned by the stage
SpaceRecords == Range(result.relationships.spaces)

\* C14: in the relationships returned by the stage, space A lists the
\* element index of space B as adjacent if and only if B lists A's.
C14_AdjacencySymmetric ==
    (result # None /\ result.success) =>
        \A a, b \in SpaceRecords :
            (b.element_index \in Range(a.adjacent_spaces))
                <=> (a.element_index \in Range(b.adjacent_spaces))

\* three spaces have been related: two of them adjacent to each other, the
\* third adjacent to none
C14_Witness ==
    /\ result # None
    /\ result.success
    /\ Cardinality(SpaceRecords) = 3
    /\ \E a, b \in SpaceRecords :
          /\ a.element_index < b.element_index
          /\ b.element_index \in Range(a.adjacent_spaces)
          /\ a.element_index \in Range(b.adjacent_spaces)
    /\ \E c \in SpaceRecords : c.adjacent_spaces = <<>>

\* factors by which all coordinates of a drawing are multiplied
ScaleFactors == {2, 10, 100}

\* the bounding box of the drawing with every coordinate multiplied by k
ScaledBounds(bounds, k) ==
    [min |-> <<k * bounds.min[1], k * bounds.min[2]>>,
     max |-> <<k * bounds.max[1], k * bounds.max[2]>>]

\* C15: when the header carries an explicit unit (a unit code other than 0),
\* unit inference on the drawing and on the drawing with all coordinates
\* multiplied by k give the same scale-to-metres factor.
C15_HeaderDecidesScale ==
    (parsed_dxf # None /\ parsed_dxf.file_info.units # Unitless) =>
        \A k \in ScaleFactors :
            _infer_units_and_thresholds(parsed_dxf.file_info,
                                        ScaledBounds(parsed_dxf.bounds, k))
                = _infer_units_and_thresholds(parsed_dxf.file_info, parsed_dxf.bounds)

\* C15 for the header units that _infer_units_and_thresholds knows
C15_KnownHeaderDecidesScale ==
    (parsed_dxf # None /\ parsed_dxf.file_info.units \in {1, 2, 4, 5, 6, 7}) =>
        \A k \in ScaleFactors :
            _infer_units_and_thresholds(parsed_dxf.file_info,
                                        ScaledBounds(parsed_dxf.bounds, k))
                = _infer_units_and_thresholds(parsed_dxf.file_info, parsed_dxf.bounds)

\* millimetres per drawing unit of a metric header unit
UnitMm(u) == CASE u = Millimeters -> 1 [] u = Centimeters -> 10 [] u = Meters -> 1000

\* the coordinates and sizes of an entity's geometry; areas are kept apart
Lengths(geom) ==
    UNION {{Get(geom, k, <<0, 0>>)[1], Get(geom, k, <<0, 0>>)[2]} : k \in {"start", "end", "center"}}
        \cup {Get(geom, "radius", 0)}
        \cup UNION {{p[1], p[2]} : p \in Range(Get(geom, "points", <<>>))}

\* the same physical entity drawn in another unit: every length times
\* num / den, every area times its square
Redrawn(e, num, den) ==
    LET len(v) == (v * num) \div den
        pt(p) == <<len(p[1]), len(p[2])>>
        g == e.geometry
    IN [e EXCEPT !.geometry =
           [k \in DOMAIN g |->
               CASE k \in {"start", "end", "center"} -> pt(g[k])
                 [] k = "radius" -> len(g[k])
                 [] k = "points" -> [i \in 1..Len(g[k]) |-> pt(g[k][i])]
                 [] k = "area" -> (g[k] * num * num) \div (den * den)
                 [] OTHER -> g[k]]]

\* the element type _analyze_entity gives, "None" when it gives no element
TypeOf(el) == IF el = None THEN "None" ELSE el.element_type

\* C16: an entity of a drawing with header unit millimetres, centimetres or
\* metres gets the same element type as the same physical entity drawn in
\* either of the other two units (where its coordinates stay integers).
C16_UnitIndependentType ==
    (/\ entity # None
     /\ epc # "failed"
     /\ parsed_dxf.file_info.units \in {Millimeters, Centimeters, Meters})
        => \A u \in {Millimeters, Centimeters, Meters} :
              LET num == UnitMm(parsed_dxf.file_info.units)
                  den == UnitMm(u)
              IN (\A v \in Lengths(entity.geometry) : (v * num) % den = 0)
                    => TypeOf(_analyze_entity(
                                  _infer_units_and_thresholds(_get_file_info(u),
                                                              parsed_dxf.bounds),
                                  Redrawn(entity, num, den)))
                         = TypeOf(element)

\* the modelspace entities whose data can be read, in order
Readable(msp) == SelectSeq(msp, LAMBDA e : "corrupt" \notin DOMAIN e)

\* the parse stage skips exactly the entities it cannot read
C17_ParseStageIsolates ==
    parsed_dxf # None => parsed_dxf.entities = Readable(doc.msp)

\* C17: a failure on one entity is confined to that entity in both stages:
\* the parse stage hands on every readable entity, and the extraction stage,
\* once it returns, has gone through every entity and reports success.
C17_EntityFailureIsolated ==
    /\ C17_ParseStageIsolates
    /\ result # None
          => /\ result.success
             /\ analysed = Len(parsed_dxf.entities)

(***************************************************************************)
(* Properties of overlapping invocations (specification SpecOverlap)       *)
(***************************************************************************)

\* the elements the entity loop extracts from a sequence of entities
RECURSIVE AnalyzeAll(_, _)
AnalyzeAll(scale, ents) ==
    IF ents = <<>> THEN <<>>
    ELSE LET el == _analyze_entity(scale, Head(ents))
         IN (IF el # None THEN <<el>> ELSE <<>>) \o AnalyzeAll(scale, Tail(ents))

\* the values extract_architectural_elements can return for a drawing when
\* no other call is under way
Alone(drawing) ==
    IF "unreadable" \in DOMAIN drawing THEN {[success |-> FALSE]}
    ELSE
    LET parsed == ParsedDxf(drawing.insunits, _extract_entities(drawing.msp), ZeroBounds)
        scale == _infer_units_and_thresholds(parsed.file_info, parsed.bounds)
        els == AnalyzeAll(scale, parsed.entities)
    IN {LET post == _post_process_elements(scale, els, order)
        IN [success |-> TRUE,
            elements |-> [k \in 1..Len(post) |-> _element_to_dict(post[k])],
            relationships |-> _compute_relationships(scale, post)] :
           order \in Orders(FacesOf(els))}

\* C18: a call that overlaps with another on the shared RobustProcessor
\* returns the elements and relationships it returns when it runs alone.
C18_OverlapIndependent ==
    \A i \in Invocations :
        invocation[i].at = "done"
            => invocation[i].result \in Alone(invocation[i].doc)

\* a call that ran from its reset to its return with the other call not
\* yet past parsing, or already done, returns what it returns alone
C18_SerialIndependent ==
    \A i \in Invocations :
        (/\ invocation[i].at = "done"
         /\ \A j \in Invocations \ {i} : invocation[j].at \in {"parse", "reset"})
            => invocation[i].result \in Alone(invocation[i].doc)

(***************************************************************************)
(* Properties of the tokenizer (specification SpecLayer)                   *)
(***************************************************************************)

\* "-".join(tokens)
RECURSIVE JoinTokens(_)
JoinTokens(tokens) ==
    IF tokens = <<>> THEN ""
    ELSE IF Len(tokens) = 1 THEN tokens[1]
    ELSE tokens[1] \o "-" \o JoinTokens(Tail(tokens))

\* the tokens of a set in some order
RECURSIVE ListOf(_)
ListOf(token_set) ==
    IF token_set = {} THEN <<>>
    ELSE LET tk == CHOOSE tk \in token_set : TRUE
         IN <<tk>> \o ListOf(token_set \ {tk})

\* C19: tokenizing the name rebuilt from the raw tokens of a layer name gives
\* the same raw tokens, the expanded set holds every raw token, and
\* tokenizing a name rebuilt from the expanded set adds no token to it.
C19_TokenizeIdempotent ==
    \A i \in 1..Len(probed) :
        LET tk == _tokenize_layer_name(probed[i].name)
            rebuilt == _tokenize_layer_name(JoinTokens(tk.raw_tokens))
            reexpanded == _tokenize_layer_name(JoinTokens(ListOf(tk.expanded)))
        IN /\ probed[i].info.tokens = tk.raw_tokens
           /\ rebuilt.raw_tokens = tk.raw_tokens
           /\ rebuilt.expanded = tk.expanded
           /\ Range(tk.raw_tokens) \subseteq tk.expanded
           /\ Range(reexpanded.raw_tokens) = tk.expanded
           /\ reexpanded.expanded = tk.expanded

\* a name in lower case with a doubled separator and an abbreviation has
\* been tokenized, and so has one whose abbreviation expands to itself and
\* a second word
C19_Witness ==
    /\ \E i \in 1..Len(probed) :
          LET tk == _tokenize_layer_name(probed[i].name)
          IN /\ JoinTokens(tk.raw_tokens) # probed[i].name
             /\ upper(probed[i].name) # probed[i].name
             /\ "RM" \in Range(tk.raw_tokens)
             /\ tk.expanded = Range(tk.raw_tokens) \cup {"ROOM"}
    /\ \E i \in 1..Len(probed) :
          /\ probed[i].name = "M-HVAC"
          /\ _tokenize_layer_name(probed[i].name).expanded = {"M", "HVAC", "MECHANICAL"}

(***************************************************************************)
(* Properties of the native graph (specification Spec)                     *)
(***************************************************************************)

\* the products the pass over the elements created: every product of the
\* graph but the opening elements cut for doors and windows
ElementProducts(b) ==
    SelectSeq(b.products, LAMBDA product : product \notin Range(b.openings))

\* C20: when the native build succeeds, the graph holds one product per
\* input element, in element order, so the products number as many as the
\* elements_created the call reports.
C20_OneProductPerElement ==
    (/\ pc = "returned"
     /\ NativeBuilt
     /\ LastAttempt = Outcome("native", "ok"))
        => /\ Len(ElementProducts(model)) = ifc_result.elements_created
           /\ \A i \in 1..Len(elements) :
                 ElementProducts(model)[i].name = <<elements[i].type, i - 1>>

\* the same for element lists of walls, doors, windows, spaces and floors
C20_OneProductPerSupportedElement ==
    (/\ pc = "returned"
     /\ NativeBuilt
     /\ LastAttempt = Outcome("native", "ok")
     /\ \A i \in 1..Len(elements) :
           elements[i].type \in {"wall", "door", "window", "space", "room", "floor"})
        => /\ Len(ElementProducts(model)) = ifc_result.elements_created
           /\ \A i \in 1..Len(elements) :
                 ElementProducts(model)[i].name = <<elements[i].type, i - 1>>

(***************************************************************************)
(* Properties of the rule score (specification SpecLayer)                  *)
(***************************************************************************)

\* the rules that match the name of a call
MatchesOf(call) ==
    RuleMatches(upper(call.name), _tokenize_layer_name(call.name).expanded)

\* priority + 6 x matched keywords + 10 x pattern hits
FullScore(match) ==
    match.rule.priority + 6 * Cardinality(match.matched_keywords)
        + 10 * Len(match.pattern_hits)

\* the confidence of a call classified by a rule is that of its best match
ConfidenceOfBest(call) ==
    call.info.classification_source = "rule"
        => call.info.classification_confidence
               = Max2(250, Min2(1000, BestMatch(MatchesOf(call)).score * 10))

\* C21: every rule that matches a layer name, by keywords, by patterns only
\* or by both, scores priority + 6 x keywords + 10 x pattern hits, and the
\* confidence is the score of the selected rule over 100, clamped to
\* [0.25, 1.0].
C21_ScoreFormula ==
    \A i \in 1..Len(probed) :
        /\ \A k \in 1..Len(MatchesOf(probed[i])) :
              MatchesOf(probed[i])[k].score = FullScore(MatchesOf(probed[i])[k])
        /\ ConfidenceOfBest(probed[i])

\* the same for the rules that match by at least one keyword
C21_KeywordScoreFormula ==
    \A i \in 1..Len(probed) :
        /\ \A k \in 1..Len(MatchesOf(probed[i])) :
              MatchesOf(probed[i])[k].matched_keywords # {}
                 => MatchesOf(probed[i])[k].score = FullScore(MatchesOf(probed[i])[k])
        /\ ConfidenceOfBest(probed[i])

(***************************************************************************)
(* Properties of the cascade order (specification SpecExtract)             *)
(***************************************************************************)

\* the first type of a list of <<type, holds>> whose predicate holds
RECURSIVE FirstTrue(_)
FirstTrue(checks) ==
    IF checks = <<>> THEN "None"
    ELSE IF Head(checks)[2] THEN Head(checks)[1]
    ELSE FirstTrue(Tail(checks))

\* the predicates before and after the MEP test, in the order of
\* _apply_classification_rules
BeforeMep(scale, e) ==
    LET info == LayerInfoOf(e.layer)
        lc == Get(info, "classification", "other")
        g == _calculate_geometry_properties(e.type, e.geometry)
        ctx == _build_layer_context(info)
    IN <<<<"wall", _is_wall(scale, e.type, e.layer, lc, g, ctx)>>,
         <<"door", _is_door(scale, e.type, e.layer, lc, g, ctx)>>,
         <<"window", _is_window(scale, e.type, e.layer, lc, g, ctx)>>,
         <<"floor", _is_floor(scale, e.type, e.layer, lc, g, ctx)>>,
         <<"ceiling", _is_ceiling(scale, e.type, e.layer, lc, g, ctx)>>,
         <<"space", _is_space(scale, e.type, e.layer, lc, g, ctx)>>,
         <<"column", _is_column(scale, e.type, e.layer, lc, g, ctx)>>,
         <<"beam", _is_beam(scale, e.type, e.layer, lc, g, ctx)>>,
         <<"stair", _is_stair(scale, e.type, e.layer, lc, g, ctx)>> >>

AfterMep(e) ==
    LET info == LayerInfoOf(e.layer)
        g == _calculate_geometry_properties(e.type, e.geometry)
        ctx == _build_layer_context(info)
    IN <<<<"furniture", _is_furniture(e.type, e.layer, g, ctx)>>,
         <<"fixture", _is_fixture(e.type, e.layer, g, ctx)>> >>

\* the four MEP tests of lines 624-631, each by discipline or tokens, and
\* the equipment test of line 633
MepTests(e) ==
    LET ctx == _build_layer_context(LayerInfoOf(e.layer))
    IN <<<<"mep_plumbing", \/ ctx.discipline = "plumbing"
                           \/ {"PLUMBING", "SANITARY", "DRAIN", "WASTE"} \cap ctx.tokens # {}>>,
         <<"mep_hvac", \/ ctx.discipline = "mechanical"
                       \/ {"HVAC", "DUCT", "VENT", "AIR"} \cap ctx.tokens # {}>>,
         <<"mep_electrical", \/ ctx.discipline = "electrical"
                             \/ {"ELECT", "POWER", "LIGHT", "LIGHTING", "DATA"} \cap ctx.tokens # {}>>,
         <<"mep_fire_protection", \/ ctx.discipline = "fire_protection"
                                  \/ {"FIRE", "SPRINKLER", "ALARM"} \cap ctx.tokens # {}>>,
         <<"mep_equipment", {"MOTOR", "EQUIPMENT"} \cap ctx.tags # {}>> >>

\* the MEP test as one predicate, its type being what _is_mep_component gives
MepAsOne(e) ==
    LET mep_type == _is_mep_component(e.type, e.layer,
                        _calculate_geometry_properties(e.type, e.geometry),
                        _build_layer_context(LayerInfoOf(e.layer)))
    IN <<<<mep_type, mep_type # "None">> >>

\* C22: the element type is that of the first predicate that holds in the
\* order wall, door, window, floor, ceiling, space, column, beam, stair,
\* plumbing, hvac, electrical, fire, furniture, fixture.
C22_FirstPredicateWins ==
    (entity # None /\ epc # "failed")
        => TypeOf(element)
             = FirstTrue(BeforeMep(scale_to_m, entity) \o MepTests(entity)
                             \o AfterMep(entity))

\* the same with the MEP test taken as one predicate
C22_CascadeOrder ==
    (entity # None /\ epc # "failed")
        => TypeOf(element)
             = FirstTrue(BeforeMep(scale_to_m, entity) \o MepAsOne(entity)
                             \o AfterMep(entity))

\* a door swing on a wall layer has become a wall: wall and door both hold
C22_WitnessOrder ==
    /\ entity = Arc("A-WALL-EXIST", 900)
    /\ scale_to_m = <<1, 1000>>
    /\ BeforeMep(scale_to_m, entity)[1][2]
    /\ BeforeMep(scale_to_m, entity)[2][2]
    /\ TypeOf(element) = "wall"

(***************************************************************************)
(* Properties of the bounding-box heuristic (specification SpecExtract)    *)
(***************************************************************************)

\* the header names a unit the extractor's tables list
HeaderUsable(file_info) ==
    \/ lower(Get(file_info, "units_name", ""))
          \in {"inches", "feet", "millimeters", "centimeters", "meters", "kilometers"}
    \/ Get(file_info, "units", 0) \in {1, 2, 4, 5, 6, 7}

\* max(width, height) of the bounding box
MaxDim(bounds) ==
    Max2(Abs(bounds.max[1] - bounds.min[1]), Abs(bounds.max[2] - bounds.min[2]))

\* the ranges with their lower bounds included (extents are whole drawing
\* units, so [0.5, 200) is 1..199)
RangeScale(max_dim) ==
    IF 1000 <= max_dim /\ max_dim < 100000 THEN <<1, 1000>>
    ELSE IF 50 <= max_dim /\ max_dim < 1000 THEN <<1, 100>>
    ELSE IF 1 <= max_dim /\ max_dim < 200 THEN <<1, 1>>
    ELSE <<1, 1000>>

\* the ranges with their lower bounds excluded
OpenRangeScale(max_dim) ==
    IF 1000 < max_dim /\ max_dim < 100000 THEN <<1, 1000>>
    ELSE IF 50 < max_dim /\ max_dim < 1000 THEN <<1, 100>>
    ELSE IF 1 <= max_dim /\ max_dim < 200 THEN <<1, 1>>
    ELSE <<1, 1000>>

\* C23: without a usable header unit the scale follows the extent:
\* [1000, 100000) gives 0.001, [50, 1000) gives 0.01, [0.5, 200) gives 1.0,
\* anything else 0.001, each lower bound belonging to the range it opens.
C23_HeuristicRanges ==
    (/\ epc \in {"entities", "post", "done"}
     /\ ~HeaderUsable(parsed_dxf.file_info))
        => scale_to_m = RangeScale(MaxDim(parsed_dxf.bounds))

\* the same with the lower bounds 50 and 1000 outside their ranges
C23_HeuristicOpenRanges ==
    (/\ epc \in {"entities", "post", "done"}
     /\ ~HeaderUsable(parsed_dxf.file_info))
        => scale_to_m = OpenRangeScale(MaxDim(parsed_dxf.bounds))

(***************************************************************************)
(* Properties of the adjacency tolerance (specification SpecExtract)       *)
(***************************************************************************)

\* a squared distance in drawing units is within k/10 m
Within(k, d2) ==
    100 * d2 * scale_to_m[1] * scale_to_m[1] <= k * k * scale_to_m[2] * scale_to_m[2]

\* every wall recorded adjacent to a space lies within k/10 m of its polygon
WallsWithin(k) ==
    \A r \in Range(result.relationships.spaces) :
        \A w \in Range(r.adjacent_walls) :
            Within(k, Dist2(_polygon_from_geometry(extracted[r.element_index + 1].geometry),
                            SegmentsOf(_line_from_geometry(extracted[w + 1].geometry))))

\* every two spaces recorded adjacent lie within k/10 m of each other
SpacesWithin(k) ==
    \A r \in Range(result.relationships.spaces) :
        \A q \in Range(r.adjacent_spaces) :
            Within(k, Dist2(_polygon_from_geometry(extracted[r.element_index + 1].geometry),
                            _polygon_from_geometry(extracted[q + 1].geometry)))

\* C24: one tolerance of 10 cm governs both tests: a wall is recorded
\* adjacent to a space only within 10 cm of its polygon, and two spaces are
\* recorded adjacent only within 10 cm of each other.
C24_UniformTolerance ==
    epc = "done" => WallsWithin(1) /\ SpacesWithin(1)

\* walls within 10 cm, spaces within 20 cm
C24_WallReachSpaceTwice ==
    epc = "done" => WallsWithin(1) /\ SpacesWithin(2)

(***************************************************************************)
(* Properties of the opening sizes (specification Spec)                    *)
(***************************************************************************)

\* C25: the opening cut for a door or window has the width of the very
\* element that fills it, or the default width (0.9 m for a door, 1.2 m for
\* a window) when that element gives none.
C25_OpeningOwnWidth ==
    NativeBuilt =>
        \A k \in 1..Len(model.fills) :
            \E r \in Range(model.opening_widths) :
                /\ r.opening = model.fills[k].RelatingOpeningElement
                /\ r.width = OpeningWidthOwn(elements, model.fills[k].RelatedBuildingElement)

\* the same for element lists whose doors all give the width of the first
\* door, and whose windows all give that of the first window
C25_OpeningFirstWidth ==
    (/\ NativeBuilt
     /\ \A i \in 1..Len(elements) :
           elements[i].type \in {"door", "window"}
              => Get(Get(elements[i], "properties", <<>>), "width", 0)
                   = Get(FirstProperties(elements, elements[i].type), "width", 0))
        => \A k \in 1..Len(model.fills) :
            \E r \in Range(model.opening_widths) :
                /\ r.opening = model.fills[k].RelatingOpeningElement
                /\ r.width = OpeningWidthOwn(elements, model.fills[k].RelatedBuildingElement)

(***************************************************************************)
(* Properties of the order of adjacent walls (specification SpecExtract)   *)
(***************************************************************************)

\* the squared distance of the wall at element index w from the polygon of
\* the space of record r
WallDistance(r, w) ==
    Dist2(_polygon_from_geometry(extracted[r.element_index + 1].geometry),
          SegmentsOf(_line_from_geometry(extracted[w + 1].geometry)))

\* C26: the adjacent walls of a space are listed by proximity: a wall nearer
\* to the space polygon never comes after a farther one.
C26_WallsByProximity ==
    epc = "done" =>
        \A r \in Range(result.relationships.spaces) :
            \A a, b \in 1..Len(r.adjacent_walls) :
                a < b => WallDistance(r, r.adjacent_walls[a])
                            <= WallDistance(r, r.adjacent_walls[b])

\* the adjacent walls of a space are listed in the order of the elements
C26_WallsByElementOrder ==
    epc = "done" =>
        \A r \in Range(result.relationships.spaces) :
            \A a, b \in 1..Len(r.adjacent_walls) :
                a < b => r.adjacent_walls[a] < r.adjacent_walls[b]

\* the products the clipping maps of the generator hold: the walls keyed in
\* either map and the opening solids' openings listed under them
MapWalls == DictKeys(_wall_solids) \cup DictKeys(_openings_by_wall)

\* C27: after any sequence of generate_ifc calls on one generator, the
\* wall-solid map and the openings-by-wall map contain only walls of the
\* build in progress (the file the current call is building).
C27_MapsOfCurrentBuild ==
    NativeBuilt => \A wall \in MapWalls : wall.file = model.file

\* what the code does keep: the maps hold the walls of every native build
\* made so far, and all walls of the current one
C27_MapsAccumulate ==
    NativeBuilt =>
        /\ \A wall \in MapWalls : wall.file \in 1..model.file
        /\ Range(model.walls) \subseteq DictKeys(_wall_solids)

\* a second build on the same generator whose maps still hold a first-build wall
C27_WitnessStale ==
    /\ NativeBuilt
    /\ model.file = 2
    /\ \E wall \in MapWalls : wall.file = 1

\* two fractions naming the same factor
SameFactor(a, b) == a[1] * b[2] = b[1] * a[2]

\* C28: for any drawing, the extraction stage and the graph-building stage
\* derive the same units-to-metres factor from the same parsed file, for
\* every header unit code, 0 (unitless) and codes outside the extractor's
\* table included.
C28_SameUnitFactor ==
    epc = "entities" =>
        SameFactor(_infer_unit_scale(parsed_dxf.file_info), scale_to_m)

\* the two stages agree when the extractor finds the header unit in its
\* own tables
C28_SameFactorForTabledUnits ==
    (epc = "entities" /\ HeaderUsable(parsed_dxf.file_info)) =>
        SameFactor(_infer_unit_scale(parsed_dxf.file_info), scale_to_m)

\* the extractor has inferred millimetres from the extent of a unitless
\* drawing, which the graph builder reads as metres
C28_WitnessUnitless ==
    /\ epc = "entities"
    /\ parsed_dxf.file_info.units = Unitless
    /\ scale_to_m = <<1, 1000>>
    /\ _infer_unit_scale(parsed_dxf.file_info) = <<1, 1>>

\* the element a space product was created from: products are named after
\* the position of their element
ElementOf(sp) == elements[sp.name[2] + 1]

\* the wall segment lies within the boundary reach of the polygon of the
\* element the space product was created from
NearOwnPolygon(r) ==
    \E g \in Range(model.walls_geo) :
        /\ g.wall = r.RelatedBuildingElement
        /\ Close(SpaceVerts(ElementOf(r.RelatingSpace).geometry), g)

\* C29: every SpaceBoundary relationship of the native build relates the
\* space product created from a space element to walls lying within 0.2
\* drawing units of that same element's polygon, also when an earlier space
\* element of the list has neither vertices nor bounds.
C29_BoundaryOfOwnPolygon ==
    NativeBuilt => \A r \in Range(model.boundaries) : NearOwnPolygon(r)

\* the space elements of the list that have a polygon
HasPolygon(el) == el.type \in {"space", "room"} /\ SpaceVerts(el.geometry) # <<>>

\* the claim holds for the lists in which every space element has a polygon
C29_BoundaryWhenAllPolygons ==
    (NativeBuilt /\ \A i \in 1..Len(elements) :
                       elements[i].type \in {"space", "room"} => HasPolygon(elements[i]))
        => \A r \in Range(model.boundaries) : NearOwnPolygon(r)

\* a boundary was emitted for a space product whose own element has no polygon
C29_WitnessShifted ==
    /\ NativeBuilt
    /\ \E r \in Range(model.boundaries) : ~HasPolygon(ElementOf(r.RelatingSpace))

(***************************************************************************)
(* Properties of the shared parser (specification SpecOverlap)             *)
(***************************************************************************)

\* the bounds a parser that has parsed nothing before reports for a file
BoundsOfFile(drawing) ==
    IF "unreadable" \in DOMAIN drawing THEN ZeroBounds
    ELSE _calculate_bounds(_extract_entities(drawing.msp), ZeroBounds)

\* the parse results handed out so far
Parsed == {i \in Invocations : invocation[i].parsed_dxf # None}

\* C30: the bounds in a parse result depend only on the file being parsed:
\* after any sequence of parse_dxf calls on the one DXFParser, a parse that
\* fails or finds no entities reports the default zero bounds, never the
\* bounds left over from an earlier file.
C30_BoundsOfTheFileOnly ==
    \A i \in Parsed :
        invocation[i].parsed_dxf.bounds = BoundsOfFile(invocation[i].doc)

\* a parse that finds entities reports the bounds of its own file, and so
\* does the first parse made on the parser
C30_BoundsWhenEntitiesOrFirst ==
    \A i \in Parsed :
        (\/ invocation[i].parsed_dxf.entities # <<>>
         \/ Parsed = {i})
            => invocation[i].parsed_dxf.bounds = BoundsOfFile(invocation[i].doc)

\* a failed parse has reported bounds other than the zero bounds
C30_WitnessStaleBounds ==
    \E i \in Parsed :
        /\ ~invocation[i].parsed_dxf.success
        /\ invocation[i].parsed_dxf.bounds # ZeroBounds

====
